---------------------------- MODULE Spec2Model ----------------------------
(***************************************************************************)
(* Model of np_data_validation: the DataValidationFile identity record,    *)
(* the Match classifier (DataValidationFile.__eq__), the checksum store    *)
(* (MongoDataValidationDB) and the strategies of strategies.py             *)
(* (ensure_checksum, find_valid_backups, delete_if_valid_backup_in_db).    *)
(***************************************************************************)
EXTENDS Integers, Sequences, FiniteSets, TLC

VARIABLES
    fs,      \* the filesystem: normalised path -> content of the file, or NoFile
    store,   \* the Mongo collection: the sequence of inserted entries
    last,    \* the last operation performed, its inputs and its outcome
    calls,   \* the add_file call of each process that shares the collection
    dump,    \* the json file of the json database
    folder_backup_paths \* DataValidationFolder.backup_paths, the set of the class

vars == <<fs, store, last, calls, dump, folder_backup_paths>>

(***************************************************************************)
(* Python values                                                           *)
(***************************************************************************)
\* Python's None for a checksum (checksums are strings)
None == "None"
\* Python's None for a size (sizes are non-negative integers)
NoSize == 0 - 1
\* a path with no file behind it
NoFile == [size |-> NoSize, crc |-> None]

(***************************************************************************)
(* Paths are sequences of string fragments whose concatenation is the path *)
(* string; every fragment of a file's path starts with its separator, so   *)
(* that a prefix of fragments is a prefix of the string.                   *)
(***************************************************************************)
IsPrefix(s, t) == Len(s) <= Len(t) /\ SubSeq(t, 1, Len(s)) = s

\* str.startswith
StartsWith(path, prefix) == IsPrefix(prefix, path)

\* the fragments that stand for a session folder string id_mouse_date
SessionFrags == {"/S1", "/S2"}

\* str.lower(), fragment by fragment
LowerFrag(f) ==
    IF f = "/REC.npx2" THEN "/rec.npx2"
    ELSE IF f = "//ACQ" THEN "//acq"
    ELSE f

Lower(path) == [i \in DOMAIN path |-> LowerFrag(path[i])]

\* os.path.basename(path), with the separator before it
Name(path) == path[Len(path)]

\* the folder a file is in
DirOf(path) == SubSeq(path, 1, Len(path) - 1)

\* the index of the first session folder fragment of a path, 0 when none
RECURSIVE FirstSession(_, _)
FirstSession(path, i) ==
    IF i > Len(path) THEN 0
    ELSE IF path[i] \in SessionFrags THEN i
    ELSE FirstSession(path, i + 1)

\* Session.folder: the first match of the session pattern in the path
SessionFolder(path) ==
    LET i == FirstSession(path, 1) IN IF i = 0 THEN None ELSE path[i]

\* Session.id of the session folder (the part before the first underscore)
SessionId(path) == SessionFolder(path)

\* DataValidationFile.__init__: as_posix, and a single leading slash doubled
Normalize(path) ==
    IF path # <<>> /\ path[1] = "/acq" THEN <<"//acq">> \o Tail(path)
    ELSE IF path # <<>> /\ path[1] = "/archive" THEN <<"//archive">> \o Tail(path)
    ELSE path

\* os.path.splitext(path)[1] != '': the last fragment carries an extension
HasExtension(path) == Name(path) \in {"/rec.npx2", "/REC.npx2", "/renamed.npx2"}

(***************************************************************************)
(* DataValidationFile.Match                                                *)
(***************************************************************************)
UNRELATED == 0
UNKNOWN == -1
SELF == 5
SELF_NO_CHECKSUM == 6
OTHER_NO_CHECKSUM == 7
CHECKSUM_COLLISION == 10
UNSYNCED_DATA == 11
UNSYNCED_CHECKSUM == 12
UNSYNCED_OR_CORRUPT_DATA == 13
VALID_COPY_SAME_NAME == 21
VALID_COPY_RENAMED == 22

\* the members of the enumeration
MatchValues ==
    {UNRELATED, UNKNOWN, SELF, SELF_NO_CHECKSUM, OTHER_NO_CHECKSUM,
     CHECKSUM_COLLISION, UNSYNCED_DATA, UNSYNCED_CHECKSUM,
     UNSYNCED_OR_CORRUPT_DATA, VALID_COPY_SAME_NAME, VALID_COPY_RENAMED}

\* what a Python function returns when it falls off its end
NoResult == 0 - 99

\* truthiness of a checksum: None is falsy, a validated checksum is truthy
HasChecksum(f) == f.checksum # None

\* the if/elif ladder of DataValidationFile.__eq__ over the comparisons it
\* makes: whether each record has a checksum, and whether the checksums, the
\* sizes, the lower-cased paths and the lower-cased names are equal
MatchOf(selfSum, otherSum, sumEq, sizeEq, pathEq, nameEq) ==
    IF selfSum /\ otherSum /\ sumEq /\ sizeEq /\ pathEq THEN SELF
    ELSE IF sizeEq /\ pathEq /\ ~selfSum /\ otherSum THEN SELF_NO_CHECKSUM
    ELSE IF sizeEq /\ pathEq /\ selfSum /\ ~otherSum THEN OTHER_NO_CHECKSUM
    ELSE IF selfSum /\ otherSum /\ sumEq /\ sizeEq /\ nameEq /\ ~pathEq
        THEN VALID_COPY_SAME_NAME
    ELSE IF selfSum /\ otherSum /\ sumEq /\ sizeEq /\ ~nameEq /\ ~pathEq
        THEN VALID_COPY_RENAMED
    ELSE IF selfSum /\ otherSum /\ nameEq /\ ~pathEq
        THEN IF ~sizeEq /\ ~sumEq THEN UNSYNCED_DATA
             ELSE IF ~sizeEq /\ sumEq THEN UNSYNCED_CHECKSUM
             ELSE IF sizeEq /\ ~sumEq THEN UNSYNCED_OR_CORRUPT_DATA
             ELSE NoResult
    ELSE IF selfSum /\ otherSum /\ sumEq /\ ~sizeEq /\ ~nameEq
        THEN CHECKSUM_COLLISION
    ELSE IF selfSum /\ otherSum /\ ~sumEq /\ ~sizeEq /\ ~nameEq
        THEN UNRELATED
    ELSE UNKNOWN

\* a comparison that lower-cases the path and name of self only
EqOneSided(self, other) ==
    MatchOf(HasChecksum(self), HasChecksum(other),
            self.checksum = other.checksum,
            self.size = other.size,
            Lower(self.path) = other.path,
            LowerFrag(Name(self.path)) = Name(other.path))

\* a comparison that takes a missing size of other for an equal size
EqLenientSize(self, other) ==
    MatchOf(HasChecksum(self), HasChecksum(other),
            self.checksum = other.checksum,
            self.size = other.size \/ other.size = NoSize,
            Lower(self.path) = Lower(other.path),
            LowerFrag(Name(self.path)) = LowerFrag(Name(other.path)))

\* a comparison of paths and names as written, upper and lower case apart
EqCaseSensitive(self, other) ==
    MatchOf(HasChecksum(self), HasChecksum(other),
            self.checksum = other.checksum,
            self.size = other.size,
            self.path = other.path,
            Name(self.path) = Name(other.path))

\* DataValidationFile.__eq__(self, other)
Eq(self, other) ==
    MatchOf(HasChecksum(self), HasChecksum(other),
            self.checksum = other.checksum,
            self.size = other.size,
            Lower(self.path) = Lower(other.path),
            LowerFrag(Name(self.path)) = LowerFrag(Name(other.path)))

(***************************************************************************)
(* The filesystem and the checksum engine                                  *)
(***************************************************************************)
\* os.stat / open of a path as given (a single or a doubled leading slash
\* name the same file)
Stat(fsys, path) ==
    IF Normalize(path) \in DOMAIN fsys THEN fsys[Normalize(path)] ELSE NoFile

\* os.path.exists(path)
Exists(fsys, path) == Stat(fsys, path) # NoFile

\* bytes read per chunk by chunk_crc32
ChunkSize == 65536

\* the digest of the bytes of a file that precede its end
TruncatedCrc == "DDDDDDDD"

\* chunk_crc32(file, fsize): int(fsize / chunk_size) + 1 chunks are read
ChunkCrc32(content, fsize) ==
    LET fsz == IF fsize = NoSize \/ fsize = 0 THEN content.size ELSE fsize
        nread == (fsz \div ChunkSize) + 1
    IN IF nread * ChunkSize >= content.size THEN content.crc ELSE TruncatedCrc

\* the checksum strings of the model that valid_crc32_checksum accepts
ValidCrc32Checksum(value) == value \in {"AAAAAAAA", "BBBBBBBB", TruncatedCrc}

\* str.upper() on one character
Upper(c) ==
    IF c = "a" THEN "A" ELSE IF c = "b" THEN "B" ELSE IF c = "c" THEN "C"
    ELSE IF c = "d" THEN "D" ELSE IF c = "e" THEN "E" ELSE IF c = "f" THEN "F"
    ELSE IF c = "g" THEN "G" ELSE c

\* valid_crc32_checksum(value), value a string given as the sequence of its
\* characters: eight characters, each a hex digit once the string is
\* uppercased
valid_crc32_checksum(value) ==
    /\ Len(value) = 8
    /\ \A i \in DOMAIN value :
          Upper(value[i]) \in {"0", "1", "2", "3", "4", "5", "6", "7", "8", "9",
                               "A", "B", "C", "D", "E", "F"}

(***************************************************************************)
(* DataValidationFile records                                              *)
(***************************************************************************)
File(path, checksum, size) == [path |-> path, checksum |-> checksum, size |-> size]

\* the result of a call: the exception raised ("" when none) and the value
Ok(v) == [err |-> "", val |-> v]
Raise(e) == [err |-> e, val |-> File(<<>>, None, NoSize)]

\* CRC32DataValidationFile.__init__(path, checksum, size):
\* SessionFile.__init__ then DataValidationFile.__init__
\* (checksum_threshold is 0: no checksum is generated on construction)
DVFile(path, checksum, size, fsys) ==
    LET accessible == Exists(fsys, path)
        is_file == IF accessible THEN TRUE ELSE HasExtension(path)
    IN
    IF ~is_file THEN Raise("ValueError")
    ELSE IF SessionFolder(path) = None THEN Raise("ValueError")
    ELSE IF checksum # None /\ ~ValidCrc32Checksum(checksum) THEN Raise("ValueError")
    ELSE Ok(File(Normalize(path),
                 checksum,
                 IF (size = NoSize \/ size = 0) /\ accessible
                 THEN Stat(fsys, path).size
                 ELSE IF size # NoSize /\ size # 0 THEN size
                 ELSE NoSize))

\* DataValidationFile.checksum (setter), value the characters of a string:
\* the value is kept as given when checksum_validate accepts it
SetChecksum(file, value) ==
    IF valid_crc32_checksum(value) THEN Ok([file EXCEPT !.checksum = value])
    ELSE Raise("ValueError")

\* DataValidationFile.generate_checksum(path, size): the self-test of the
\* generator, then the generator on the file
GenerateChecksumOf(path, size, fsys) ==
    IF ~Exists(fsys, path) THEN Raise("FileNotFoundError")
    ELSE Ok(File(path, ChunkCrc32(Stat(fsys, path), size), size))

\* mmap_direct(fpath): the digest of the whole file, read through a memory
\* map
MmapDirect(content) == content.crc

\* the functions checksum_generator is set to: the two readers, and one
\* whose digests are wrong
Generators == {"chunk_crc32", "mmap_direct", "wrong"}

\* cls.checksum_generator(path, size) on a file of the given content
Generator(gen, content, fsize) ==
    IF gen = "chunk_crc32" THEN ChunkCrc32(content, fsize)
    ELSE IF gen = "mmap_direct" THEN MmapDirect(content)
    ELSE "BBBBBBBB"

\* test_crc32_function(func): the digest of a file holding b'foo' is
\* 8C736521
test_crc32_function(gen) ==
    Generator(gen, [size |-> 3, crc |-> "8C736521"], NoSize) = "8C736521"

\* the result of a call together with the calls it made, in their order
Traced(r, trace) == [err |-> r.err, val |-> r.val, trace |-> trace]

\* a generate_checksum that does not test the generator
GenerateUntested(gen, path, size, fsys) ==
    IF ~Exists(fsys, path)
    THEN Traced(Raise("FileNotFoundError"), <<"checksum_generator">>)
    ELSE Traced(Ok(File(path, Generator(gen, Stat(fsys, path), size), size)),
                <<"checksum_generator">>)

\* DataValidationFile.generate_checksum(path, size) with checksum_generator
\* set to gen: cls.checksum_test(cls.checksum_generator), whose assert
\* raises AssertionError, then cls.checksum_generator(path, size)
GenerateChecksumBy(gen, path, size, fsys) ==
    IF ~test_crc32_function(gen)
    THEN Traced(Raise("AssertionError"), <<"checksum_test">>)
    ELSE IF ~Exists(fsys, path)
        THEN Traced(Raise("FileNotFoundError"), <<"checksum_test", "checksum_generator">>)
    ELSE Traced(Ok(File(path, Generator(gen, Stat(fsys, path), size), size)),
                <<"checksum_test", "checksum_generator">>)

(***************************************************************************)
(* MongoDataValidationDB                                                   *)
(***************************************************************************)
Entry(file) ==
    [session_id |-> SessionId(file.path), path |-> file.path,
     checksum |-> file.checksum, size |-> file.size]

\* the DVFile objects built from the entries of the file's session
RECURSIVE SessionFiles(_, _, _)
SessionFiles(sid, st, fsys) ==
    IF st = <<>> THEN <<>>
    ELSE (IF Head(st).session_id = sid
          THEN <<DVFile(Head(st).path, Head(st).checksum, Head(st).size, fsys).val>>
          ELSE <<>>)
         \o SessionFiles(sid, Tail(st), fsys)

\* the files of a list whose match type against file is one of kinds
RECURSIVE Filter(_, _, _)
Filter(seq, file, kinds) ==
    IF seq = <<>> THEN <<>>
    ELSE (IF Eq(file, Head(seq)) \in kinds THEN <<Head(seq)>> ELSE <<>>)
         \o Filter(Tail(seq), file, kinds)

\* MongoDataValidationDB.get_matches(file, match=match): the matching files,
\* in the order of the collection; the second list of the returned tuple is
\* Eq(file, o) of each. match = UNRELATED stands for no match argument too.
GetMatches(file, match, st, fsys) ==
    Filter(SessionFiles(SessionId(file.path), st, fsys), file,
           IF match # 0 /\ match \in MatchValues
           THEN {t \in {match} : match > 0}
           ELSE {t \in MatchValues : t > 0})

\* the match types of a list of files returned by get_matches
MatchTypes(file, files) == {Eq(file, files[i]) : i \in DOMAIN files}

\* add_file: an entry that is the file, with or without its checksum, exists
Skipped(match_type) == SELF \in match_type \/ SELF_NO_CHECKSUM \in match_type

\* an add_file that inserts a document whatever the collection holds
AddFileAlways(file, st, fsys) == Append(st, Entry(file))

\* an add_file that is skipped when the collection has any match of the file
AddFileUnlessMatched(file, st, fsys) ==
    IF GetMatches(file, 0, st, fsys) # <<>> THEN st ELSE Append(st, Entry(file))

\* MongoDataValidationDB.add_file(file): skipped when the collection has a
\* SELF or SELF_NO_CHECKSUM match already, else one document is inserted
AddFile(file, st, fsys) ==
    IF Skipped(MatchTypes(file, GetMatches(file, 0, st, fsys)))
    THEN st
    ELSE Append(st, Entry(file))

\* ShelveDataValidationDB.add_file(file): skipped when the list under the
\* session id holds a SELF or SELF_NO_CHECKSUM of the file, else the file is
\* appended to the list, or a list is made for the key
ShelveAddFile(file, st, fsys) ==
    IF \E x \in {Eq(file, o) : o \in
                   {SessionFiles(SessionId(file.path), st, fsys)[i] :
                       i \in DOMAIN SessionFiles(SessionId(file.path), st, fsys)}} :
          x \in {SELF, SELF_NO_CHECKSUM}
    THEN st
    ELSE Append(st, Entry(file))

\* ShelveDataValidationDB.get_matches(file): `matches` is bound only when
\* the session id is a key of the shelf (`if key in db: matches = db[key]`),
\* and the return statement reads it
ShelveGetMatches(file, st, fsys) ==
    IF \A i \in DOMAIN st : st[i].session_id # SessionId(file.path)
    THEN [err |-> "UnboundLocalError", val |-> <<>>]
    ELSE [err |-> "", val |-> GetMatches(file, 0, st, fsys)]

\* self.db.get_matches(file=file), db the backend the folder is given
DbGetMatches(db, file, st, fsys) ==
    IF db = "shelve" THEN ShelveGetMatches(file, st, fsys)
    ELSE [err |-> "", val |-> GetMatches(file, 0, st, fsys)]

\* get_matches as strategies.py calls it: one list of files, match a kind or
\* a list of kinds (here a set), no match argument: every kind except
\* UNRELATED and UNKNOWN
GetMatchesList(file, kinds, st, fsys) ==
    Filter(SessionFiles(SessionId(file.path), st, fsys), file, kinds)

DefaultKinds == MatchValues \ {UNRELATED, UNKNOWN}

\* the match argument of a get_matches call: none, an int, or a list of kinds
NoMatch == [type |-> "none", int |-> 0, list |-> {}]
IntMatch(k) == [type |-> "int", int |-> k, list |-> {}]
ListMatch(ks) == [type |-> "list", int |-> 0, list |-> ks]

\* MongoDataValidationDB.get_matches(file, match=match), match as the caller
\* passes it: the filter on one kind applies to an int only
\* (isinstance(match, int)), any other argument takes the else branch
GetMatchesOf(file, match, st, fsys) ==
    IF match.type = "int" THEN GetMatches(file, match.int, st, fsys)
    ELSE GetMatches(file, 0, st, fsys)

\* the second list get_matches returns: file == o of each file returned
MatchTypeList(file, files) == [i \in DOMAIN files |-> Eq(file, files[i])]

(***************************************************************************)
(* CRC32JsonDataValidationDB                                               *)
(***************************************************************************)
\* the truth value Python gives the int a comparison of two files returns
Truthy(kind) == kind # 0 /\ kind # NoResult

\* CRC32JsonDataValidationDB.add_file(file): self.db.append(file)
JsonAddFile(file, db) == Append(db, file)

\* self.db.count(file): the items of the list that compare true with file
JsonCount(db, file) == Cardinality({i \in DOMAIN db : Truthy(Eq(db[i], file))})

\* self.db.index(f): the index, from 0, of the first item that compares
\* true with f
JsonIndex(db, f) ==
    (CHOOSE i \in DOMAIN db :
        /\ db[i] = f \/ Truthy(Eq(db[i], f))
        /\ \A j \in 1..(i - 1) : ~(db[j] = f \/ Truthy(Eq(db[j], f)))) - 1

\* [self.db.index(f) for f in self.db if file == f], f the items from the
\* n-th on
RECURSIVE JsonIndexes(_, _, _)
JsonIndexes(db, file, n) ==
    IF n > Len(db) THEN <<>>
    ELSE (IF Truthy(Eq(file, db[n])) THEN <<JsonIndex(db, db[n])>> ELSE <<>>)
         \o JsonIndexes(db, file, n + 1)

\* CRC32JsonDataValidationDB.get_matches(file): the indexes returned, or
\* None when no item compares true with file and no path is given
JsonGetMatches(file, db) ==
    IF JsonCount(db, file) > 0
    THEN [none |-> FALSE, indexes |-> JsonIndexes(db, file, 1)]
    ELSE [none |-> TRUE, indexes |-> <<>>]

\* the json file at db.path: whether it exists, and the items of its
\* dictionary in the order of their keys
NoDump == [exists |-> FALSE, items |-> <<>>]
EmptyDump == [exists |-> TRUE, items |-> <<>>]

\* str(pathlib.PureWindowsPath(file.path)): the parts joined with backslashes
PureWindowsPath(path) == [sep |-> "\\", parts |-> path]

\* save: the item of a file, keyed by its posix path; 'crc32' and 'size' are
\* left out (None, NoSize here) when file.checksum, file.size are falsy
JsonItem(file) ==
    [key |-> file.path, windows |-> PureWindowsPath(file.path), posix |-> file.path,
     crc32 |-> IF HasChecksum(file) THEN file.checksum ELSE None,
     size |-> IF file.size # NoSize /\ file.size # 0 THEN file.size ELSE NoSize]

\* dump.update(item): the value of a key the dictionary holds is replaced in
\* place, another key is added at the end
DictUpdate(items, item) ==
    IF \E i \in DOMAIN items : items[i].key = item.key
    THEN [i \in DOMAIN items |-> IF items[i].key = item.key THEN item ELSE items[i]]
    ELSE Append(items, item)

\* save: for file in self.db: dump.update(item)
RECURSIVE JsonDump(_, _)
JsonDump(db, items) ==
    IF db = <<>> THEN items
    ELSE JsonDump(Tail(db), DictUpdate(items, JsonItem(Head(db))))

\* CRC32JsonDataValidationDB.save(): the file is opened for reading first
JsonSave(db, file) ==
    IF ~file.exists THEN [err |-> "FileNotFoundError", file |-> file]
    ELSE [err |-> "", file |-> [exists |-> TRUE, items |-> JsonDump(db, file.items)]]

\* load: the file object of an item is appended; a ValueError of the
\* constructor skips the item
JsonLoadItem(db, f) == IF f.err # "" THEN db ELSE JsonAddFile(f.val, db)

\* load: for item in items
RECURSIVE JsonLoadItems(_, _, _)
JsonLoadItems(items, db, fsys) ==
    IF items = <<>> THEN db
    ELSE JsonLoadItems(Tail(items),
                       JsonLoadItem(db, DVFile(Head(items).posix, Head(items).crc32,
                                               Head(items).size, fsys)),
                       fsys)

\* CRC32JsonDataValidationDB.load(): db is emptied, then filled from the
\* file when it exists
JsonLoad(file, fsys) ==
    IF ~file.exists THEN <<>> ELSE JsonLoadItems(file.items, <<>>, fsys)

(***************************************************************************)
(* strategies.py                                                           *)
(***************************************************************************)
\* the outcome of a strategy: the exception raised ("" when none), the file
\* returned and the collection as the call leaves it
Out(err, file, st) == [err |-> err, file |-> file, store |-> st]

\* generate_checksum: db.add_file(new_file); return new_file
AddNewFile(new_file, subject, st, fsys) ==
    IF new_file.err # "" THEN Out(new_file.err, subject, st)
    ELSE Out("", new_file.val, AddFile(new_file.val, st, fsys))

\* generate_checksum: new_file = db.DVFile(path, size, checksum), checksum
\* the outcome g of subject.generate_checksum
NewFile(g, subject, st, fsys) ==
    IF g.err # "" THEN Out(g.err, subject, st)
    ELSE AddNewFile(DVFile(subject.path, g.val.checksum, subject.size, fsys),
                    subject, st, fsys)

\* generate_checksum(subject, db)
GenerateChecksum(subject, st, fsys) ==
    NewFile(GenerateChecksumOf(subject.path, subject.size, fsys), subject, st, fsys)

\* exchange_if_checksum_in_db: the entry when there is one match only
OnlyMatch(matches, subject) ==
    IF Len(matches) = 1 THEN matches[1] ELSE subject

\* an exchange that never adopts an entry of the collection
NoExchange(subject, st, fsys) == subject

\* exchange_if_checksum_in_db(subject, db)
ExchangeIfChecksumInDb(subject, st, fsys) ==
    IF HasChecksum(subject) THEN subject
    ELSE OnlyMatch(GetMatchesList(subject, {SELF_NO_CHECKSUM}, st, fsys), subject)

\* ensure_checksum: the second if, on the subject the first if leaves
GenerateIfNone(subject, st, fsys) ==
    IF ~HasChecksum(subject) THEN GenerateChecksum(subject, st, fsys)
    ELSE Out("", subject, st)

\* ensure_checksum(subject, db)
EnsureChecksum(subject, st, fsys) ==
    GenerateIfNone(IF ~HasChecksum(subject)
                   THEN ExchangeIfChecksumInDb(subject, st, fsys)
                   ELSE subject,
                   st, fsys)

\* the kinds find_invalid_copies_in_db keeps
InvalidKinds ==
    {t \in MatchValues : t >= CHECKSUM_COLLISION /\ t <= UNSYNCED_OR_CORRUPT_DATA}

\* find_invalid_copies_in_db(subject, db)
FindInvalidCopiesInDb(subject, st, fsys) ==
    Filter(GetMatchesList(subject, DefaultKinds, st, fsys), subject, InvalidKinds)

\* every kind from CHECKSUM_COLLISION up
BackupWorthyKinds == {t \in MatchValues : t >= CHECKSUM_COLLISION}

\* the kinds find_valid_copies_in_db asks for
ValidKinds == {VALID_COPY_RENAMED, VALID_COPY_SAME_NAME}

\* a lookup of the copies that kept their name only
FindSameNameCopiesInDb(subject, st, fsys) ==
    GetMatchesList(subject, {VALID_COPY_SAME_NAME}, st, fsys)

\* find_valid_copies_in_db(subject, db)
FindValidCopiesInDb(subject, st, fsys) ==
    GetMatchesList(subject, ValidKinds, st, fsys)

\* the set of the elements of a sequence
Range(seq) == {seq[i] : i \in DOMAIN seq}

\* pathlib: root / relative path
Join(root, rel) == root \o rel

\* subject.relative_path: the path of the file below its session folder
RelativePath(subject) == <<Name(subject.path)>>

\* the state find_valid_backups carries through its loops: the exception
\* raised, the set of backups, the collection, and whether the last
\* candidate was accepted
Acc(err, backups, st, hit) ==
    [err |-> err, backups |-> backups, store |-> st, hit |-> hit]

\* find_valid_backups: a candidate is added to the backups when it is a
\* valid copy of the subject
Accept(valid, c, acc) ==
    Acc("", IF valid THEN acc.backups \cup {c.file} ELSE acc.backups, c.store, valid)

\* find_valid_backups: the candidate c that generate_checksum returned is
\* compared with the subject
Classify(subject, c, acc) ==
    IF c.err # "" THEN Acc(c.err, acc.backups, c.store, FALSE)
    ELSE Accept(Eq(subject, c.file) \in ValidKinds, c, acc)

\* find_valid_backups: the record f made of a candidate path is checksummed
\* and added to the collection
Checksum(subject, f, acc, fsys) ==
    IF f.err # "" THEN Acc(f.err, acc.backups, acc.store, FALSE)
    ELSE Classify(subject, GenerateChecksum(f.val, acc.store, fsys), acc)

\* one candidate of find_valid_backups: checksummed, stored, and accepted
\* when it is a valid copy of the subject
TryCandidate(subject, path, size, acc, fsys) ==
    IF acc.err # "" THEN acc
    ELSE Checksum(subject, DVFile(path, None, size, fsys), acc, fsys)

\* os.scandir(backup_path): the files directly inside the folder, in the
\* order the filesystem lists them
ScanDir(backup_path, listing, fsys) ==
    SelectSeq(listing, LAMBDA p : fsys[p] # NoFile /\ DirOf(p) = Normalize(backup_path))

\* the size scan of one backup folder
RECURSIVE ScanCandidates(_, _, _, _, _)
ScanCandidates(subject, backup_path, dir_contents, acc, fsys) ==
    IF dir_contents = <<>> \/ acc.err # "" THEN acc
    ELSE ScanCandidates(subject, backup_path, Tail(dir_contents),
                        IF fsys[Head(dir_contents)].size = subject.size
                        THEN TryCandidate(subject,
                                          Join(backup_path, <<Name(Head(dir_contents))>>),
                                          subject.size, acc, fsys)
                        ELSE acc,
                        fsys)

\* a folder exists when a file lies below it
DirExists(fsys, dir) ==
    \E p \in DOMAIN fsys :
        fsys[p] # NoFile /\ IsPrefix(Normalize(dir), p) /\ Normalize(dir) # p

\* a probe of a backup path that never scans the folder
ExactProbeOnly(subject, backup_path, listing, exact, fsys) == exact

\* find_valid_backups: the size scan of a backup path, unless the candidate
\* at the exact path was accepted (continue)
ScanUnlessHit(subject, backup_path, listing, exact, fsys) ==
    IF exact.hit \/ exact.err # "" THEN exact
    ELSE ScanCandidates(subject, backup_path, ScanDir(backup_path, listing, fsys),
                        exact, fsys)

\* find_valid_backups: the candidate at the subject's relative path below a
\* backup path, when a file is there
ProbeExact(subject, try_path, acc, fsys) ==
    IF Exists(fsys, try_path)
    THEN TryCandidate(subject, try_path, NoSize, acc, fsys)
    ELSE [acc EXCEPT !.hit = FALSE]

\* find_valid_backups: the probes of one backup path
ProbeBackupPath(subject, backup_path, listing, acc, fsys) ==
    IF ~DirExists(fsys, backup_path) THEN acc
    ELSE ScanUnlessHit(subject, backup_path, listing,
                       ProbeExact(subject, Join(backup_path, RelativePath(subject)),
                                  acc, fsys),
                       fsys)

\* the filesystem probes of find_valid_backups, one backup path at a time
RECURSIVE ProbeBackupPaths(_, _, _, _, _)
ProbeBackupPaths(subject, backup_paths, listing, acc, fsys) ==
    IF backup_paths = <<>> \/ acc.err # "" THEN acc
    ELSE ProbeBackupPaths(subject, Tail(backup_paths), listing,
                          ProbeBackupPath(subject, Head(backup_paths), listing, acc, fsys),
                          fsys)

\* a contiguous run of fragments of a path (Python's `sub in path`)
Contains(path, sub) ==
    \E i \in 0..(Len(path) - Len(sub)) : SubSeq(path, i + 1, i + Len(sub)) = sub

\* Session.NPEXP_ROOT
NPEXP_ROOT == <<"//archive">>

\* Session.npexp_path(path): NPEXP_ROOT / folder
NpexpPath(path) == Join(NPEXP_ROOT, <<SessionFolder(path)>>)

\* the backup paths of find_valid_backups when the caller gives none: the
\* session's folders on lims and npexp that the subject is not in (the lims
\* lookup is taken to find nothing)
DefaultBackupPaths(subject) ==
    IF Contains(subject.path, NpexpPath(subject.path)) THEN <<>>
    ELSE <<NpexpPath(subject.path)>>

\* the result of find_valid_backups: the exception raised, the subject with
\* its checksum, the set of backups and the collection
Found(err, file, backups, st) ==
    [err |-> err, file |-> file, backups |-> backups, store |-> st]

\* find_valid_backups: the filesystem probes, when the collection gave no
\* backup
ProbeIfNone(backups, e, backup_paths, listing, fsys) ==
    IF backups # {} THEN Acc("", backups, e.store, TRUE)
    ELSE ProbeBackupPaths(e.file, backup_paths, listing, Acc("", {}, e.store, FALSE), fsys)

\* find_valid_backups: the valid copies of the collection that lie under a
\* backup path
UnderBackupPaths(matches, backup_paths) ==
    {m \in Range(matches) :
        \E i \in DOMAIN backup_paths : StartsWith(m.path, backup_paths[i])}

\* find_valid_backups: the result, probed the outcome of the lookups
FoundOf(probed, e) == Found(probed.err, e.file, probed.backups, probed.store)

\* find_valid_backups once ensure_checksum has returned e
FindBackupsOf(e, backup_paths, listing, fsys) ==
    IF e.err # "" THEN Found(e.err, e.file, {}, e.store)
    ELSE FoundOf(ProbeIfNone(UnderBackupPaths(FindValidCopiesInDb(e.file, e.store, fsys),
                                              backup_paths),
                             e, backup_paths, listing, fsys),
                 e)

\* find_valid_backups: the assert on the backup paths
Consistent(subject, backup_paths) ==
    \A i \in DOMAIN backup_paths :
        SessionFolder(backup_paths[i]) # None
            => SessionFolder(backup_paths[i]) = SessionFolder(subject.path)

\* find_valid_backups with the backup paths it works on
FindValidBackupsIn(subject, st, fsys, backup_paths, listing) ==
    IF ~Consistent(subject, backup_paths) THEN Found("AssertionError", subject, {}, st)
    ELSE FindBackupsOf(EnsureChecksum(subject, st, fsys), backup_paths, listing, fsys)

\* find_valid_backups(subject, db, backup_paths), the backup paths in the
\* order the set of them is iterated, the folders in the order listed
FindValidBackups(subject, st, fsys, given_paths, listing) ==
    FindValidBackupsIn(subject, st, fsys,
                       IF given_paths = <<>> THEN DefaultBackupPaths(subject)
                       ELSE given_paths,
                       listing)

\* the final check of delete_if_valid_backup_in_db: the chosen backup has
\* the subject's checksum and size
FinalCheck(subject, backup) ==
    ~(subject.checksum # backup.checksum \/ subject.size # backup.size)

\* the result of delete_if_valid_backup_in_db: the exception raised, the
\* value returned, whether the subject was unlinked, the subject with its
\* checksum, the backups found, the one looked at, the collection, the
\* environment of the unlink, and the calls of the try statement in the
\* order they were made
Deleted(err, ret, unlinked, file, backups, chosen, st, env) ==
    [err |-> err, ret |-> ret, unlinked |-> unlinked, file |-> file,
     backups |-> backups, chosen |-> chosen, store |-> st, env |-> env,
     log |-> <<>>]

NoBackup == File(<<>>, None, NoSize)

\* the environment of an unlink: whether the raw probe data is kept because
\* no sorted folder exists yet, and whether unlink raises PermissionError
UnlinkEnvs == {<<FALSE, FALSE>>, <<TRUE, FALSE>>, <<FALSE, TRUE>>}

\* an unlink whose PermissionError is not caught
UnlinkUncaught(found, chosen, env, fsys) ==
    IF ~Exists(fsys, found.file.path)
    THEN Deleted("FileNotFoundError", 0, FALSE, found.file, found.backups, chosen,
                 found.store, env)
    ELSE IF env[2]
        THEN Deleted("PermissionError", 0, FALSE, found.file, found.backups, chosen,
                     found.store, env)
    ELSE Deleted("", found.file.size, TRUE, found.file, found.backups, chosen,
                 found.store, env)

\* delete_if_valid_backup_in_db: the try statement. unlink raises
\* FileNotFoundError when the subject is no file on disk; PermissionError
\* is caught and the function goes on to return 0. unlink() is called
\* first; logging.info("DELETED ...") follows when it has returned,
\* logging.exception when it has raised PermissionError
Unlink(found, chosen, env, fsys) ==
    IF ~Exists(fsys, found.file.path)
    THEN [Deleted("FileNotFoundError", 0, FALSE, found.file, found.backups, chosen,
                  found.store, env) EXCEPT !.log = <<"unlink">>]
    ELSE IF env[2]
        THEN [Deleted("", 0, FALSE, found.file, found.backups, chosen, found.store, env)
                 EXCEPT !.log = <<"unlink", "exception">>]
    ELSE [Deleted("", found.file.size, TRUE, found.file, found.backups, chosen,
                  found.store, env) EXCEPT !.log = <<"unlink", "DELETED">>]

\* the body of delete_if_valid_backup_in_db once ensure_checksum has
\* returned e and find_valid_backups has returned found: chosen is
\* backups[0] of the list made of the set of backups, env[1] the condition
\* under which raw probe data is kept, env[2] whether unlink raises
\* PermissionError
DeleteOutcome(e, found, chosen, env, fsys) ==
    IF e.err # "" THEN Deleted(e.err, 0, FALSE, e.file, {}, NoBackup, e.store, env)
    ELSE IF found.err # ""
        THEN Deleted(found.err, 0, FALSE, e.file, found.backups, NoBackup,
                     found.store, env)
    ELSE IF found.backups = {}
        THEN Deleted("", 0, FALSE, found.file, {}, NoBackup, found.store, env)
    ELSE IF ~FinalCheck(found.file, chosen)
        THEN Deleted("AssertionError", 0, FALSE, found.file, found.backups, chosen,
                     found.store, env)
    ELSE IF env[1]
        THEN Deleted("", 0, FALSE, found.file, found.backups, chosen, found.store, env)
    ELSE Unlink(found, chosen, env, fsys)

\* the backups delete_if_valid_backup_in_db may find at backups[0]
FirstBackups(e, found) ==
    IF e.err = "" /\ found.err = "" /\ found.backups # {}
    THEN found.backups ELSE {NoBackup}

\* delete_if_valid_backup_in_db once find_valid_backups has returned found:
\* the outcomes, one for each backup that may be backups[0] and each
\* environment of the unlink
DeleteOutcomes(e, found, fsys) ==
    {DeleteOutcome(e, found, chosen, env, fsys) :
        chosen \in FirstBackups(e, found), env \in UnlinkEnvs}

\* delete_if_valid_backup_in_db once ensure_checksum has returned e
DeleteAfterEnsure(e, fsys, backup_paths, listing) ==
    DeleteOutcomes(e, FindValidBackups(e.file, e.store, fsys, backup_paths, listing), fsys)

\* a delete that unlinks on every match of the collection, found the
\* matches, without the final check
UnlinkOnAnyMatch(e, matches) ==
    IF e.err # "" \/ matches = {}
    THEN {Deleted(e.err, 0, FALSE, e.file, {}, NoBackup, e.store, <<FALSE, FALSE>>)}
    ELSE {Deleted("", e.file.size, TRUE, e.file, matches, chosen, e.store,
                  <<FALSE, FALSE>>) : chosen \in matches}

\* a delete that takes every match of the collection for a backup
AnyMatchAfterEnsure(e, fsys) ==
    UnlinkOnAnyMatch(e, Range(GetMatchesList(e.file, DefaultKinds, e.store, fsys)))

\* a delete that takes every match of the collection for a backup and
\* unlinks without the final check
DeleteOnAnyMatch(subject, st, fsys, backup_paths, listing) ==
    AnyMatchAfterEnsure(EnsureChecksum(subject, st, fsys), fsys)

\* a delete whose unlink is not guarded by the backups found
UnlinkUnguarded(e, found, fsys) ==
    IF e.err # "" \/ found.err # ""
    THEN {DeleteOutcome(e, found, NoBackup, <<FALSE, FALSE>>, fsys)}
    ELSE {Deleted("", found.file.size, TRUE, found.file, found.backups, chosen,
                  found.store, <<FALSE, FALSE>>) : chosen \in FirstBackups(e, found)}

\* a delete whose unlink is not guarded by the backups found, once
\* ensure_checksum has returned e
UnguardedAfterEnsure(e, fsys, backup_paths, listing) ==
    UnlinkUnguarded(e, FindValidBackups(e.file, e.store, fsys, backup_paths, listing),
                    fsys)

\* a delete whose unlink is not guarded by the backups found
DeleteWithoutBackupGuard(subject, st, fsys, backup_paths, listing) ==
    UnguardedAfterEnsure(EnsureChecksum(subject, st, fsys), fsys, backup_paths, listing)

\* delete_if_valid_backup_in_db(subject, db, backup_paths): the outcomes of
\* the call
DeleteIfValidBackupInDb(subject, st, fsys, backup_paths, listing) ==
    DeleteAfterEnsure(EnsureChecksum(subject, st, fsys), fsys, backup_paths, listing)

(***************************************************************************)
(* DataValidationFolder                                                    *)
(***************************************************************************)
\* no file object yet
NoFileObject == File(<<>>, None, NoSize)

\* DataValidationFolder.generate_large_checksums, regenerate_large_checksums
generate_large_checksums == TRUE
regenerate_large_checksums == FALSE

\* DataValidationFolder.upper_size_limit, 5 GB in the source, on the scale of
\* the sizes of the model: a file of 1000 bytes lies below it, one of 2000
\* bytes above
upper_size_limit == 1500

\* the state of a walk: the backend and the settings of the folder, the backup folders
\* probed, the exception that ended
\* it ("" when none), the
\* collection, the filesystem, the paths whose turn of the loop has ended,
\* the paths of the file objects whose checksum was assigned after their
\* construction, the paths unlinked, the list add_folder_to_db returns, and
\* in a turn of the loop the file object and whether the turn has ended
\* (continue), and the DELETED messages logged and unlink calls made, in
\* their order
Walk(st, fsys) ==
    [err |-> "", store |-> st, fs |-> fsys, done |-> <<>>, assigned |-> {},
     unlinked |-> {}, file_objects |-> <<>>, file |-> NoFileObject, cont |-> FALSE,
     log |-> <<>>, probed |-> {}, db |-> "mongo",
     generate_large_checksums |-> generate_large_checksums,
     regenerate_large_checksums |-> regenerate_large_checksums,
     upper_size_limit |-> upper_size_limit]

\* folder.generate_large_checksums = g; folder.regenerate_large_checksums = r;
\* folder.upper_size_limit = u: the settings assigned before a walk
Settings(w, g, r, u) ==
    [w EXCEPT !.generate_large_checksums = g,
              !.regenerate_large_checksums = r,
              !.upper_size_limit = u]

\* the turn of the loop goes on
Running(w) == w.err = "" /\ ~w.cont

\* file.generate_checksum(path, size) on a file that open() may refuse
Hash(path, size, fsys, unreadable) ==
    IF Normalize(path) \in unreadable THEN Raise("PermissionError")
    ELSE GenerateChecksumOf(path, size, fsys)

\* db.add_file(file), file the object with the checksum assigned
AddAssigned(w, file) ==
    [w EXCEPT !.file = file,
              !.assigned = @ \cup {file.path},
              !.store = AddFile(file, w.store, w.fs)]

\* file.checksum = h; db.add_file(file): the checksum setter on the file
\* object of the turn, h the outcome of generate_checksum
AssignChecksum(w, h) ==
    IF h.err # "" THEN [w EXCEPT !.err = h.err]
    ELSE IF ~ValidCrc32Checksum(h.val.checksum) THEN [w EXCEPT !.err = "ValueError"]
    ELSE AddAssigned(w, [w.file EXCEPT !.checksum = h.val.checksum])

\* validate_backups: file = self.db.DVFile(path=...); when the constructor
\* raises, `except [ValueError, TypeError]` names a list, not an exception
\* class, and evaluating the clause raises TypeError
VbConstruct(w, f) ==
    IF f.err # "" THEN [w EXCEPT !.err = "TypeError"]
    ELSE [w EXCEPT !.file = f.val, !.cont = FALSE]

\* validate_backups: generate new checksums for large files if toggled on
VbRegenerate(w, unreadable) ==
    IF Running(w) /\ ~HasChecksum(w.file)
       /\ (w.regenerate_large_checksums \/ w.file.size < w.upper_size_limit)
    THEN AssignChecksum(w, Hash(w.file.path, NoSize, w.fs, unreadable))
    ELSE w

\* validate_backups: the entries with checksums of a file without one: the
\* file is skipped when they disagree, else it is replaced by the last
VbAdopt(w, others_with_checksum) ==
    IF \E i \in DOMAIN others_with_checksum :
          others_with_checksum[i].checksum #
              others_with_checksum[Len(others_with_checksum)].checksum
    THEN [w EXCEPT !.cont = TRUE]
    ELSE [w EXCEPT !.file = others_with_checksum[Len(others_with_checksum)]]

\* validate_backups: the file without a checksum, matches the result of
\* get_matches
VbExchangeOf(w, matches, unreadable) ==
    IF SELF_NO_CHECKSUM \in MatchTypes(w.file, matches)
    THEN VbAdopt(w, Filter(matches, w.file, {SELF_NO_CHECKSUM}))
    ELSE IF w.file.size < w.upper_size_limit \/ w.generate_large_checksums
        THEN AssignChecksum(w, Hash(w.file.path, NoSize, w.fs, unreadable))
    ELSE [w EXCEPT !.cont = TRUE]

\* validate_backups: check in current database for similar files
VbExchange(w, unreadable) ==
    IF Running(w) /\ ~HasChecksum(w.file)
    THEN VbExchangeOf(w, GetMatches(w.file, 0, w.store, w.fs), unreadable)
    ELSE w

\* validate_backups: the matches from CHECKSUM_COLLISION up
Hits(file, matches) == Filter(matches, file, BackupWorthyKinds)

\* validate_backups: bb = DVFile(path); bb.checksum = bb.generate_checksum;
\* db.add_file(bb), bb the outcome of the constructor, h of the checksum
VbAddBackup(w, bb, h) ==
    IF bb.err # "" THEN [w EXCEPT !.err = bb.err]
    ELSE IF h.err # "" THEN [w EXCEPT !.err = h.err]
    ELSE [w EXCEPT !.assigned = @ \cup {bb.val.path},
                   !.store = AddFile([bb.val EXCEPT !.checksum = h.val.checksum],
                                     w.store, w.fs)]

\* validate_backups: one file of a backup folder is checksummed and added
VbBackupFile(w, path, unreadable) ==
    IF w.err # "" THEN w
    ELSE VbAddBackup(w, DVFile(path, None, NoSize, w.fs),
                     Hash(path, NoSize, w.fs, unreadable))

\* validate_backups: the files of size_match, one after the other
RECURSIVE VbSizeMatches(_, _, _)
VbSizeMatches(w, size_match, unreadable) ==
    IF size_match = <<>> \/ w.err # "" THEN w
    ELSE VbSizeMatches(VbBackupFile(w, Head(size_match), unreadable),
                       Tail(size_match), unreadable)

\* pathlib.Path(file.path).relative_to(self.path)
RelativeTo(path, root) == SubSeq(path, Len(root) + 1, Len(path))

\* validate_backups: the files directly in the backup folder that have the
\* size of the file
SizeMatch(w, backup, listing) ==
    SelectSeq(ScanDir(backup, listing, w.fs), LAMBDA q : w.fs[q].size = w.file.size)

\* validate_backups: check backup for similar files, b_file the path of the
\* file below the backup folder
VbProbeIn(w, backup, b_file, listing, unreadable) ==
    IF ~DirExists(w.fs, backup) THEN w
    ELSE IF Exists(w.fs, b_file) THEN VbBackupFile(w, b_file, unreadable)
    ELSE VbSizeMatches(w, SizeMatch(w, backup, listing), unreadable)

\* validate_backups: `for b_folder in self.backups()`
RECURSIVE VbProbeEach(_, _, _, _, _)
VbProbeEach(w, root, backups, listing, unreadable) ==
    IF backups = <<>> \/ w.err # "" THEN w
    ELSE VbProbeEach(VbProbeIn([w EXCEPT !.probed = @ \cup {Head(backups)}],
                               Head(backups),
                               Join(Head(backups), RelativeTo(w.file.path, root)),
                               listing, unreadable),
                     root, Tail(backups), listing, unreadable)

\* validate_backups: the backup folders are probed when the collection has
\* no hit
VbProbe(w, root, backups, listing, unreadable) ==
    IF Running(w) /\ Hits(w.file, GetMatches(w.file, 0, w.store, w.fs)) = <<>>
    THEN VbProbeEach(w, root, backups, listing, unreadable)
    ELSE w

\* list.remove(hits[k]): the first item that is the object hits[k] or that
\* compares true with it is removed; __eq__ returns the match type, and any
\* type but UNRELATED is true
ListRemove(hits, k) ==
    LET j == CHOOSE j \in 1..k :
                 /\ j = k \/ Truthy(Eq(hits[j], hits[k]))
                 /\ \A i \in 1..(j - 1) : ~Truthy(Eq(hits[i], hits[k]))
    IN SubSeq(hits, 1, j - 1) \o SubSeq(hits, j + 1, Len(hits))

\* validate_backups: `for h in hits`, from the k-th item on: an item with
\* the size, path and checksum of hit is removed from the list the loop
\* runs over, and the loop goes on at the next index
RECURSIVE RemoveDuplicates(_, _, _)
RemoveDuplicates(hits, hit, k) ==
    IF k > Len(hits) THEN hits
    ELSE IF hits[k].size = hit.size /\ hits[k].path = hit.path
            /\ hits[k].checksum = hit.checksum
        THEN RemoveDuplicates(ListRemove(hits, k), hit, k + 1)
    ELSE RemoveDuplicates(hits, hit, k + 1)

\* validate_backups: remove duplicates from hits: `while hits`, hit the item
\* popped from the end
RECURSIVE UniqueHits(_, _)
UniqueHits(hits, unique_hits) ==
    IF hits = <<>> THEN unique_hits
    ELSE UniqueHits(RemoveDuplicates(SubSeq(hits, 1, Len(hits) - 1), hits[Len(hits)], 1),
                    Append(unique_hits, hits[Len(hits)]))

\* validate_backups: the hits that are files on disk, lie in the backup
\* folder and are valid copies of the file
ValidExtantHits(w, backup) ==
    {x \in Range(UniqueHits(Hits(w.file, GetMatches(w.file, 0, w.store, w.fs)), <<>>)) :
        /\ Exists(w.fs, x.path)
        /\ Contains(x.path, backup)
        /\ Eq(w.file, x) >= VALID_COPY_SAME_NAME}

\* validate_backups: logging.info("... (DELETED)"), then
\* pathlib.Path(file.path).unlink(), which raises PermissionError when denied
VbUnlink(w, denied) ==
    IF denied THEN [w EXCEPT !.err = "PermissionError",
                             !.log = @ \o <<"DELETED", "unlink">>]
    ELSE [w EXCEPT !.fs = [w.fs EXCEPT ![w.file.path] = NoFile],
                   !.unlinked = @ \cup {w.file.path},
                   !.log = @ \o <<"DELETED", "unlink">>]

\* validate_backups: if delete, `for backup in self.backups()`: the file is
\* unlinked when it is on disk and a valid copy of it is on disk in one of
\* the backup folders
VbDelete(w, backups, delete, denied) ==
    IF Running(w) /\ delete
       /\ (\E i \in DOMAIN backups : ValidExtantHits(w, backups[i]) # {})
       /\ Exists(w.fs, w.file.path)
    THEN VbUnlink(w, denied)
    ELSE w

\* the end of a turn of the loop
VbDone(w, path) ==
    IF w.err # "" THEN w ELSE [w EXCEPT !.done = Append(@, path)]

\* validate_backups: one turn of the loop over the files of the folder
VbFile(w, path, root, backups, delete, listing, unreadable, denied) ==
    VbDone(VbDelete(VbProbe(VbExchange(VbRegenerate(
               VbConstruct(w, DVFile(path, None, NoSize, w.fs)), unreadable),
               unreadable), root, backups, listing, unreadable),
               backups, delete, denied),
           path)

\* validate_backups: the loop over the files os.walk lists
RECURSIVE VbWalk(_, _, _, _, _, _, _, _)
VbWalk(w, files, root, backups, delete, listing, unreadable, denied) ==
    IF files = <<>> \/ w.err # "" THEN w
    ELSE VbWalk(VbFile(w, Head(files), root, backups, delete, listing, unreadable, denied),
                Tail(files), root, backups, delete, listing, unreadable, denied)

\* os.walk(self.path): the files below the folder, in the order listed
WalkFiles(root, listing, fsys) ==
    SelectSeq(listing, LAMBDA q : fsys[q] # NoFile /\ IsPrefix(root, q))

\* folder.add_backup(path), path a string: the path is added to the set
\* self.backup_paths names, the set of the class; an empty string raises
AddBackup(paths, path) ==
    IF path = <<>> THEN [err |-> "TypeError", val |-> paths]
    ELSE [err |-> "", val |-> paths \cup {path}]

\* folder.backups(): list(self.backup_paths), the items of the set of the
\* class in any order
Backups(folder, paths) ==
    {order \in [1..Cardinality(paths) -> paths] : Range(order) = paths}

\* folder.validate_backups(delete=delete) of DataValidationFolder(root),
\* backups the list self.backups() returns; without a backup location or
\* with the folder not accessible the method returns at once
ValidateBackups(root, backups, delete, st, fsys, listing, unreadable, denied) ==
    IF backups = <<>> \/ ~DirExists(fsys, root) THEN Walk(st, fsys)
    ELSE VbWalk(Walk(st, fsys), WalkFiles(root, listing, fsys), root, backups, delete,
                listing, unreadable, denied)

\* add_folder_to_db: file = self.db.DVFile(path=...); a ValueError or
\* TypeError of the constructor ends the turn
AfConstruct(w, f) ==
    IF f.err \in {"ValueError", "TypeError"} THEN [w EXCEPT !.cont = TRUE]
    ELSE IF f.err # "" THEN [w EXCEPT !.err = f.err]
    ELSE [w EXCEPT !.file = f.val, !.cont = FALSE]

\* add_folder_to_db: add(f)
AfAdd(w) ==
    [w EXCEPT !.store = AddFile(w.file, w.store, w.fs),
              !.file_objects = Append(@, w.file),
              !.cont = TRUE]

\* add_folder_to_db: gen(f), h the outcome of f.generate_checksum
AfGen(w, h) ==
    IF h.err # "" THEN [w EXCEPT !.err = h.err]
    ELSE IF ~ValidCrc32Checksum(h.val.checksum) THEN [w EXCEPT !.err = "ValueError"]
    ELSE AfAdd([w EXCEPT !.file.checksum = h.val.checksum,
                         !.assigned = @ \cup {w.file.path}])

\* add_folder_to_db: the if/elif ladder on the result of get_matches
AfLadder(w, matches, match_type, unreadable) ==
    IF SELF \in match_type THEN [w EXCEPT !.cont = TRUE]
    ELSE IF OTHER_NO_CHECKSUM \in match_type THEN AfAdd(w)
    ELSE IF SELF_NO_CHECKSUM \in match_type
        THEN IF w.file.size > w.upper_size_limit \/ ~w.regenerate_large_checksums
             THEN [w EXCEPT !.cont = TRUE]
             ELSE AfGen(w, Hash(w.file.path, w.file.size, w.fs, unreadable))
    ELSE IF matches = <<>> /\ HasChecksum(w.file) THEN AfAdd(w)
    ELSE IF matches = <<>>
            /\ (w.file.size < w.upper_size_limit \/ w.generate_large_checksums)
        THEN AfGen(w, Hash(w.file.path, w.file.size, w.fs, unreadable))
    ELSE [w EXCEPT !.cont = TRUE]

\* add_folder_to_db: check whether it exists in current database already
AfMatches(w, matches, unreadable) ==
    AfLadder(w, matches, MatchTypes(w.file, matches), unreadable)

\* add_folder_to_db: matches, match_type = self.db.get_matches(file=file),
\* outside any try
AfFound(w, found, unreadable) ==
    IF found.err # "" THEN [w EXCEPT !.err = found.err]
    ELSE AfMatches(w, found.val, unreadable)

\* add_folder_to_db: the turn after the constructor
AfLookup(w, unreadable) ==
    IF Running(w)
    THEN AfFound(w, DbGetMatches(w.db, w.file, w.store, w.fs), unreadable)
    ELSE w

\* add_folder_to_db: one turn of the loop over the files of the folder
AfFile(w, path, unreadable) ==
    VbDone(AfLookup(AfConstruct(w, DVFile(path, None, NoSize, w.fs)), unreadable), path)

\* add_folder_to_db: the loop over the files
RECURSIVE AfWalk(_, _, _)
AfWalk(w, files, unreadable) ==
    IF files = <<>> \/ w.err # "" THEN w
    ELSE AfWalk(AfFile(w, Head(files), unreadable), Tail(files), unreadable)

\* DataValidationFolder(root).add_folder_to_db(); the folders rglob('*')
\* also yields fail the constructor with ValueError and are skipped
AfFolder(w, root, listing, unreadable) ==
    IF ~DirExists(w.fs, root) THEN w
    ELSE AfWalk(w, WalkFiles(root, listing, w.fs), unreadable)

\* add_folder_to_db of a folder with the settings of the class
AddFolderToDb(root, st, fsys, listing, unreadable) ==
    AfFolder(Walk(st, fsys), root, listing, unreadable)

(***************************************************************************)
(* The files, records and backup paths the operations are run on           *)
(***************************************************************************)
AcqS1 == <<"//acq", "/S1">>
ArchiveS1 == <<"//archive", "/S1">>

AcqRec == <<"//acq", "/S1", "/rec.npx2">>
ArchiveRec == <<"//archive", "/S1", "/rec.npx2">>
ArchiveRenamed == <<"//archive", "/S1", "/renamed.npx2">>

\* every path of the filesystem, in the order folders are listed
Listing == <<AcqRec, ArchiveRec, ArchiveRenamed>>
FsPaths == Range(Listing)

\* file contents: the size in bytes and the CRC32 of the bytes
ContentA == [size |-> 1000, crc |-> "AAAAAAAA"]
ContentB == [size |-> 1000, crc |-> "BBBBBBBB"]
ContentC == [size |-> 2000, crc |-> "AAAAAAAA"]

\* what each path may hold
Contents(p) ==
    IF p = AcqRec THEN {ContentA}
    ELSE IF p = ArchiveRec THEN {ContentA, ContentB}
    ELSE {ContentA, ContentC}

\* the checksum and size a caller constructs a record with: neither, or
\* both as read from a listing of checksums
Supplied ==
    {<<None, NoSize>>, <<"AAAAAAAA", 1000>>, <<"BBBBBBBB", 1000>>,
     <<"AAAAAAAA", 2000>>, <<"BBBBBBBB", 2000>>}

\* the paths of the subjects of the strategies
SubjectPaths == {AcqRec}

\* the checksum and size the subject of a strategy is constructed with
SubjectSupplied == {<<None, NoSize>>, <<"AAAAAAAA", 1000>>, <<"BBBBBBBB", 1000>>}

\* the backup_paths arguments of the strategies (<<>>: none given)
BackupPathArgs == {<<>>, <<ArchiveS1>>, <<AcqS1, ArchiveS1>>}

\* the largest number of documents in the collection
MaxStore == 2

(***************************************************************************)
(* The state machine                                                       *)
(***************************************************************************)
\* the record of an operation: its name, the record it was called on, the
\* backup paths given, the record it returned (the other record of a
\* comparison), the backups found and the one at backups[0], the value
\* returned, whether the subject was unlinked, the exception raised, how
\* many times in a row ensure_checksum was called on the subject, whether
\* the call computed a checksum, the checksum the call before it returned,
\* whether the call inserted into the collection, and the environment of
\* the unlink
Op(op, subject, paths, file, backups, chosen, ret, unlinked, err, nth, hashed, prior, added, env) ==
    [op |-> op, subject |-> subject, paths |-> paths, file |-> file,
     backups |-> backups, chosen |-> chosen, ret |-> ret,
     unlinked |-> unlinked, err |-> err, nth |-> nth, hashed |-> hashed,
     prior |-> prior, added |-> added, env |-> env]

NoOp ==
    Op("init", NoBackup, <<>>, NoBackup, {}, NoBackup, 0, FALSE, "", 0, FALSE,
       None, FALSE, <<FALSE, FALSE>>)

\* the processes that share the collection, and the add_file call each has
\* under way: where it is, the file, and the match types it has read
Workers == {1, 2}

NoCall == [pc |-> "idle", file |-> NoBackup, match_type |-> {}]
NoCalls == [w \in Workers |-> NoCall]

\* the operations after which a strategy is called. last is a record of
\* what happened and no operation reads more of it than this: every
\* filesystem and collection a strategy leaves is one that writes and adds
\* make too, so a strategy called after writes and adds only (and
\* ensure_checksum once more on the record of its first call) meets every
\* filesystem and collection the program can be in
SetupOps == {"init", "write", "add"}

Init ==
    /\ fs = [p \in FsPaths |-> NoFile]
    /\ store = <<>>
    /\ last = NoOp
    /\ calls = NoCalls
    /\ dump = NoDump
    /\ folder_backup_paths = {}

\* the environment writes, overwrites or removes a file
WriteFile ==
    \E p \in FsPaths : \E c \in Contents(p) \cup {NoFile} :
        /\ fs[p] # c
        /\ fs' = [fs EXCEPT ![p] = c]
        /\ last' = [NoOp EXCEPT !.op = "write"]
        /\ UNCHANGED store
        /\ UNCHANGED <<calls, dump, folder_backup_paths>>

\* db.add_file(db.DVFile(path, checksum, size))
AddFileOp ==
    \E p \in FsPaths : \E cs \in Supplied :
        LET f == DVFile(p, cs[1], cs[2], fs)
            st == AddFile(f.val, store, fs)
        IN /\ f.err = ""
           /\ Len(st) <= MaxStore
           /\ store' = st
           /\ last' = [NoOp EXCEPT !.op = "add", !.subject = f.val, !.file = f.val,
                                   !.added = st # store]
           /\ UNCHANGED fs
           /\ UNCHANGED <<calls, dump, folder_backup_paths>>

\* the record of an ensure_checksum call on subject that returned e
EnsureRecord(subject, e, again, st, fsys) ==
    [NoOp EXCEPT !.op = "ensure", !.subject = subject,
                 !.file = e.file, !.err = e.err,
                 !.nth = IF again THEN 2 ELSE 1,
                 !.hashed = ~HasChecksum(subject) /\
                     ~HasChecksum(ExchangeIfChecksumInDb(subject, st, fsys)),
                 !.prior = IF again THEN last.file.checksum ELSE None,
                 !.added = e.store # st]

\* ensure_checksum(subject, db) has returned e
Ensured(subject, e) ==
    /\ last.op \in SetupOps \/ (last.op = "ensure" /\ last.subject = subject /\ last.nth = 1)
    /\ Len(e.store) <= MaxStore
    /\ store' = e.store
    /\ last' = EnsureRecord(subject, e, last.op = "ensure" /\ last.subject = subject,
                            store, fs)
    /\ UNCHANGED fs
    /\ UNCHANGED <<calls, dump, folder_backup_paths>>

\* ensure_checksum(db.DVFile(path, checksum, size), db), and the same call
\* once more
EnsureChecksumOp ==
    \E p \in SubjectPaths : \E cs \in SubjectSupplied :
        LET f == DVFile(p, cs[1], cs[2], fs)
        IN /\ f.err = ""
           /\ Ensured(f.val, EnsureChecksum(f.val, store, fs))

\* delete_if_valid_backup_in_db(db.DVFile(path, checksum, size), db, backup_paths)
DeleteIfValidBackupInDbOp ==
    \E p \in SubjectPaths : \E cs \in SubjectSupplied : \E paths \in BackupPathArgs :
        LET f == DVFile(p, cs[1], cs[2], fs)
        IN /\ f.err = ""
           /\ last.op \in SetupOps
           /\ \E d \in DeleteIfValidBackupInDb(f.val, store, fs, paths, Listing) :
                /\ Len(d.store) <= MaxStore
                /\ store' = d.store
                /\ fs' = IF d.unlinked
                         THEN [fs EXCEPT ![d.file.path] = NoFile] ELSE fs
                /\ last' = [log |-> d.log] @@
                           Op("delete", f.val, paths, d.file, d.backups,
                              d.chosen, d.ret, d.unlinked, d.err, 0, FALSE,
                              None, d.store # store, d.env)
                /\ UNCHANGED <<calls, dump, folder_backup_paths>>

Next ==
    \/ WriteFile
    \/ AddFileOp
    \/ EnsureChecksumOp
    \/ DeleteIfValidBackupInDbOp

Spec == Init /\ [][Next]_vars

(***************************************************************************)
(* The collection alone: writes and adds                                   *)
(***************************************************************************)
NextStore ==
    \/ WriteFile
    \/ AddFileOp

SpecStore == Init /\ [][NextStore]_vars

(***************************************************************************)
(* The classifier alone: every pair of records of EqRecords compared       *)
(***************************************************************************)
AcqRecUpper == <<"//ACQ", "/S1", "/REC.npx2">>
AcqRenamed == <<"//acq", "/S1", "/renamed.npx2">>

EqPaths == {AcqRec, AcqRecUpper, AcqRenamed, ArchiveRec, ArchiveRenamed}

\* records with and without a checksum, with and without a size
EqRecords ==
    {File(p, c, z) : p \in EqPaths, c \in {None, "AAAAAAAA", "BBBBBBBB"},
                     z \in {NoSize, 1000, 2000}}

InitEq ==
    /\ fs = [p \in FsPaths |-> NoFile]
    /\ store = <<>>
    /\ last \in {[NoOp EXCEPT !.op = "pair", !.subject = a, !.file = b] :
                    a \in EqRecords, b \in EqRecords}
    /\ calls = NoCalls
    /\ dump = NoDump
    /\ folder_backup_paths = {}

\* self == other
EqOp ==
    /\ last.op = "pair"
    /\ last' = [last EXCEPT !.op = "eq", !.ret = Eq(last.subject, last.file)]
    /\ UNCHANGED <<fs, store>>
    /\ UNCHANGED <<calls, dump, folder_backup_paths>>

NextEq == EqOp

SpecEq == InitEq /\ [][NextEq]_vars

(***************************************************************************)
(* Lookups: get_matches on a collection that holds two sessions            *)
(***************************************************************************)
ArchiveS2Rec == <<"//archive", "/S2", "/rec.npx2">>

\* the paths of the entries of the collection and of the records looked up
LookupPaths == FsPaths \cup {ArchiveS2Rec}
LookupSubjects == {AcqRec, ArchiveS2Rec}

\* the match arguments of the lookups; 3 is an int that is no kind
MatchArgs ==
    {NoMatch, IntMatch(SELF), IntMatch(VALID_COPY_RENAMED), IntMatch(UNRELATED),
     IntMatch(UNKNOWN), IntMatch(3), ListMatch(ValidKinds),
     ListMatch({SELF_NO_CHECKSUM})}

\* the filesystems the lookups are made on: no file, and every file
LookupFilesystems ==
    {[p \in FsPaths |-> NoFile],
     [p \in FsPaths |-> IF p = ArchiveRec THEN ContentB
                        ELSE IF p = ArchiveRenamed THEN ContentC ELSE ContentA]}

InitLookup ==
    /\ fs \in LookupFilesystems
    /\ store = <<>>
    /\ last = NoOp
    /\ calls = NoCalls
    /\ dump = NoDump
    /\ folder_backup_paths = {}

\* db.add_file(db.DVFile(path, checksum, size)), a file of either session;
\* a lookup changes nothing, so the adds are made before it
AddSessionFileOp ==
    \E p \in LookupPaths : \E cs \in Supplied :
        LET f == DVFile(p, cs[1], cs[2], fs)
            st == AddFile(f.val, store, fs)
        IN /\ f.err = ""
           /\ last.op \in SetupOps
           /\ Len(st) <= MaxStore
           /\ store' = st
           /\ last' = [NoOp EXCEPT !.op = "add"]
           /\ UNCHANGED fs
           /\ UNCHANGED <<calls, dump, folder_backup_paths>>

\* db.get_matches(db.DVFile(path, checksum, size), match=match): the record
\* of the call keeps the two lists returned
GetMatchesOp ==
    \E p \in LookupSubjects : \E cs \in SubjectSupplied : \E m \in MatchArgs :
        LET f == DVFile(p, cs[1], cs[2], fs)
        IN /\ f.err = ""
           /\ last.op \in SetupOps
           /\ last' = [op |-> "get_matches", subject |-> f.val, match |-> m,
                       files |-> GetMatchesOf(f.val, m, store, fs),
                       kinds |-> MatchTypeList(f.val, GetMatchesOf(f.val, m, store, fs))]
           /\ UNCHANGED <<fs, store>>
           /\ UNCHANGED <<calls, dump, folder_backup_paths>>

NextLookup ==
    \/ AddSessionFileOp
    \/ GetMatchesOp

SpecLookup == InitLookup /\ [][NextLookup]_vars

(***************************************************************************)
(* The json database: a list of files in memory                            *)
(***************************************************************************)
\* the paths of the files added to the json database
JsonPaths == {AcqRec, ArchiveS2Rec}

\* the operations after which the json database is used
JsonSetupOps == {"init", "json_add"}

\* db.add_file(file=db.DVFile(path, checksum, size))
JsonAddFileOp ==
    \E p \in JsonPaths : \E cs \in Supplied :
        LET f == DVFile(p, cs[1], cs[2], fs)
        IN /\ f.err = ""
           /\ last.op \in JsonSetupOps
           /\ Len(store) < MaxStore
           /\ store' = JsonAddFile(f.val, store)
           /\ last' = [NoOp EXCEPT !.op = "json_add"]
           /\ UNCHANGED fs
           /\ UNCHANGED <<calls, dump, folder_backup_paths>>

\* db.get_matches(file=db.DVFile(path, checksum, size))
JsonGetMatchesOp ==
    \E p \in JsonPaths : \E cs \in SubjectSupplied :
        LET f == DVFile(p, cs[1], cs[2], fs)
        IN /\ f.err = ""
           /\ last.op \in JsonSetupOps
           /\ last' = [op |-> "json_get_matches", subject |-> f.val,
                       found |-> JsonGetMatches(f.val, store)]
           /\ UNCHANGED <<fs, store>>
           /\ UNCHANGED <<calls, dump, folder_backup_paths>>

\* db.save()
JsonSaveOp ==
    LET saved == JsonSave(store, dump)
    IN /\ last.op \in JsonSetupOps
       /\ dump' = saved.file
       /\ last' = [op |-> "json_save", err |-> saved.err]
       /\ UNCHANGED <<fs, store, calls, folder_backup_paths>>

\* db.load(), at the start or after db.save()
JsonLoadOp ==
    /\ last.op \in {"init", "json_save"}
    /\ store' = JsonLoad(dump, fs)
    /\ last' = [op |-> "json_load", db |-> store,
                saved |-> (last.op = "json_save" /\ last.err = "")]
    /\ UNCHANGED <<fs, calls, dump, folder_backup_paths>>

\* db = CRC32JsonDataValidationDB(path): the file may not exist yet
InitJson ==
    /\ fs \in LookupFilesystems
    /\ store = <<>>
    /\ last = NoOp
    /\ calls = NoCalls
    /\ dump \in {NoDump, EmptyDump}
    /\ folder_backup_paths = {}

NextJson ==
    \/ JsonAddFileOp
    \/ JsonGetMatchesOp
    \/ JsonSaveOp
    \/ JsonLoadOp

SpecJson == InitJson /\ [][NextJson]_vars

(***************************************************************************)
(* Two processes add files to the collection at the same time              *)
(***************************************************************************)
\* the paths of the files the processes add
WorkerPaths == {AcqRec, ArchiveRec}

\* add_file up to the result of get_matches (the find on the collection):
\* the process has read the match types of the file
AddFileCheck(w) ==
    \E p \in WorkerPaths : \E cs \in Supplied :
        LET f == DVFile(p, cs[1], cs[2], fs)
        IN /\ f.err = ""
           /\ calls[w].pc = "idle"
           /\ calls' = [calls EXCEPT ![w] =
                  [pc |-> "checked", file |-> f.val,
                   match_type |-> MatchTypes(f.val, GetMatches(f.val, 0, store, fs))]]
           /\ UNCHANGED <<fs, store, last, dump, folder_backup_paths>>

\* add_file from the test of the match types on: the call returns, or
\* insert_one adds the document
AddFileInsert(w) ==
    /\ calls[w].pc = "checked"
    /\ store' = IF Skipped(calls[w].match_type) THEN store
                ELSE Append(store, Entry(calls[w].file))
    /\ calls' = [calls EXCEPT ![w].pc = "done"]
    /\ UNCHANGED <<fs, last, dump, folder_backup_paths>>

NextWorkers ==
    \/ \E w \in Workers : AddFileCheck(w)
    \/ \E w \in Workers : AddFileInsert(w)

SpecWorkers == Init /\ [][NextWorkers]_vars

(***************************************************************************)
(* Walks: folders on the acquisition drive and their backup folder         *)
(***************************************************************************)
Acq == <<"//acq">>
Archive == <<"//archive">>
AcqNotes == <<"//acq", "/notes.txt">>

\* every path of the filesystem of the walks, in the order os.walk lists
\* them; notes.txt lies in no session folder
WalkListing == <<AcqNotes, AcqRec, AcqRenamed, ArchiveRec, ArchiveRenamed>>

\* what each path may hold
WalkContents(p) ==
    IF p = AcqNotes THEN {NoFile, ContentA}
    ELSE IF p = AcqRec THEN {ContentA, ContentC}
    ELSE IF p = AcqRenamed THEN {NoFile, ContentB}
    ELSE IF p = ArchiveRec THEN {NoFile, ContentA, ContentB}
    ELSE {NoFile, ContentA}

\* the folders walked and the backup folder added to each
WalkRoots == {Acq, AcqS1}
BackupOf(root) == IF root = Acq THEN Archive ELSE ArchiveS1

\* the files that open() refuses: none, or one of them
Unreadable == {{}} \cup {{p} : p \in {AcqRec, AcqRenamed, ArchiveRec}}

InitWalk ==
    /\ fs \in {f \in [Range(WalkListing) -> {NoFile, ContentA, ContentB, ContentC}] :
                 \A p \in Range(WalkListing) : f[p] \in WalkContents(p)}
    /\ store = <<>>
    /\ last = NoOp
    /\ calls = NoCalls
    /\ dump = NoDump
    /\ folder_backup_paths = {}

\* db.add_file(db.DVFile(path, checksum, size)) before the walk: the entries
\* earlier runs have left
WalkAddFileOp ==
    \E p \in {AcqRec, ArchiveRec} : \E cs \in Supplied :
        LET f == DVFile(p, cs[1], cs[2], fs)
            st == AddFile(f.val, store, fs)
        IN /\ f.err = ""
           /\ last.op \in SetupOps
           /\ Len(st) <= MaxStore
           /\ store' = st
           /\ last' = [NoOp EXCEPT !.op = "add"]
           /\ UNCHANGED <<fs, calls, dump, folder_backup_paths>>

\* the record of a walk
Walked(op, root, delete, files, unreadable, denied, w) ==
    /\ fs' = w.fs
    /\ store' = w.store
    /\ last' = [op |-> op, root |-> root, delete |-> delete, files |-> files,
                unreadable |-> unreadable, denied |-> denied, err |-> w.err,
                done |-> w.done, assigned |-> w.assigned, unlinked |-> w.unlinked,
                file_objects |-> w.file_objects, before |-> store,
                fsbefore |-> fs, log |-> w.log]
    /\ UNCHANGED <<calls, dump, folder_backup_paths>>

\* folder = DataValidationFolder(root); folder.add_backup(backup);
\* folder.validate_backups(delete=delete)
ValidateBackupsOp ==
    \E root \in WalkRoots : \E delete \in BOOLEAN :
    \E unreadable \in Unreadable : \E denied \in BOOLEAN :
        /\ last.op \in SetupOps
        /\ Walked("validate_backups", root, delete, WalkFiles(root, WalkListing, fs),
                  unreadable, denied,
                  ValidateBackups(root, <<BackupOf(root)>>, delete, store, fs, WalkListing,
                                  unreadable, denied))

\* DataValidationFolder(root).add_folder_to_db()
AddFolderToDbOp ==
    \E root \in WalkRoots : \E unreadable \in Unreadable :
        /\ last.op \in SetupOps
        /\ Walked("add_folder_to_db", root, FALSE, WalkFiles(root, WalkListing, fs),
                  unreadable, FALSE,
                  AddFolderToDb(root, store, fs, WalkListing, unreadable))

NextWalk ==
    \/ WalkAddFileOp
    \/ ValidateBackupsOp
    \/ AddFolderToDbOp

SpecWalk == InitWalk /\ [][NextWalk]_vars

(***************************************************************************)
(* add_folder_to_db run twice over a folder that did not change            *)
(***************************************************************************)
\* the values given to upper_size_limit: below, at, between and above the
\* sizes of the files
SizeLimits == {500, 1000, 1500, 2500}

\* the record of a walk of add_folder_to_db under given settings
Rewalked(walks, root, g, r, u, unreadable, w) ==
    /\ fs' = w.fs
    /\ store' = w.store
    /\ last' = [op |-> "walk", walks |-> walks, root |-> root,
                generate_large_checksums |-> g, regenerate_large_checksums |-> r,
                upper_size_limit |-> u, unreadable |-> unreadable, err |-> w.err,
                file_objects |-> w.file_objects, before |-> store]
    /\ UNCHANGED <<calls, dump, folder_backup_paths>>

\* folder = DataValidationFolder(root); the three settings assigned;
\* folder.add_folder_to_db()
FirstWalkOp ==
    \E root \in WalkRoots : \E unreadable \in {{}, {AcqRec}, {AcqRenamed}} :
    \E g \in BOOLEAN : \E r \in BOOLEAN : \E u \in SizeLimits :
        /\ last.op \in SetupOps
        /\ Rewalked(1, root, g, r, u, unreadable,
                    AfFolder(Settings(Walk(store, fs), g, r, u), root, WalkListing,
                             unreadable))

\* folder.add_folder_to_db() once more: the same folder, the same settings,
\* the files as they were
SecondWalkOp ==
    /\ last.op = "walk"
    /\ last.walks = 1
    /\ Rewalked(2, last.root, last.generate_large_checksums,
                last.regenerate_large_checksums, last.upper_size_limit,
                last.unreadable,
                AfFolder(Settings(Walk(store, fs), last.generate_large_checksums,
                                  last.regenerate_large_checksums,
                                  last.upper_size_limit),
                         last.root, WalkListing, last.unreadable))

NextTwice ==
    \/ WalkAddFileOp
    \/ FirstWalkOp
    \/ SecondWalkOp

SpecTwice == InitWalk /\ [][NextTwice]_vars

(***************************************************************************)
(* Checksum strings, character by character                                *)
(***************************************************************************)
\* the characters and lengths of the strings given as checksums
ChecksumChars == {"0", "9", "A", "F", "a", "f", "G", "g"}
ChecksumLens == {7, 8, 9}

\* the strings: one character repeated, or a run of one then of another
ChecksumValues ==
    UNION {{[i \in 1..n |-> IF i <= k THEN c1 ELSE c2] :
               c1 \in ChecksumChars, c2 \in ChecksumChars, k \in 0..n} :
           n \in ChecksumLens}

\* file = DVFile(path, checksum=value, size=1000); db.add_file(file) on the
\* json database: __init__ sets the checksum through the setter
ConstructOp ==
    \E value \in ChecksumValues :
        LET f == DVFile(AcqRec, None, 1000, fs)
            g == IF f.err # "" THEN f ELSE SetChecksum(f.val, value)
        IN /\ last.op = "init"
           /\ store' = IF g.err = "" THEN JsonAddFile(g.val, store) ELSE store
           /\ last' = [op |-> "construct", value |-> value, err |-> g.err,
                       file |-> g.val]
           /\ UNCHANGED <<fs, calls, dump, folder_backup_paths>>

\* file = DVFile(path, size=1000); file.checksum = value
SetChecksumOp ==
    \E value \in ChecksumValues :
        LET f == DVFile(AcqRec, None, 1000, fs)
            g == IF f.err # "" THEN f ELSE SetChecksum(f.val, value)
        IN /\ last.op = "init"
           /\ last' = [op |-> "assign", value |-> value, err |-> g.err,
                       file |-> g.val]
           /\ UNCHANGED <<fs, store, calls, dump, folder_backup_paths>>

NextChecksum ==
    \/ ConstructOp
    \/ SetChecksumOp

SpecChecksum == InitLookup /\ [][NextChecksum]_vars

(***************************************************************************)
(* Two copies of the same bytes, each deleted against the other            *)
(***************************************************************************)
\* the two copies, and for each the folder of the other as backup path
PairPaths == {AcqRec, ArchiveRec}
OtherFolder(p) == IF p = AcqRec THEN <<ArchiveS1>> ELSE <<AcqS1>>

InitPair ==
    /\ fs = [p \in FsPaths |-> IF p \in PairPaths THEN ContentA ELSE NoFile]
    /\ store = <<>>
    /\ last = NoOp
    /\ calls = NoCalls
    /\ dump = NoDump
    /\ folder_backup_paths = {}

\* delete_if_valid_backup_in_db(db.DVFile(path, checksum, size), db,
\* [the folder of the other copy]), one call after the other
DeletePairOp ==
    \E p \in PairPaths : \E cs \in SubjectSupplied :
        LET f == DVFile(p, cs[1], cs[2], fs)
        IN /\ f.err = ""
           /\ \E d \in DeleteIfValidBackupInDb(f.val, store, fs, OtherFolder(p), Listing) :
                /\ Len(d.store) <= MaxStore
                /\ store' = d.store
                /\ fs' = IF d.unlinked
                         THEN [fs EXCEPT ![d.file.path] = NoFile] ELSE fs
                /\ last' = Op("delete", f.val, OtherFolder(p), d.file, d.backups,
                              d.chosen, d.ret, d.unlinked, d.err, 0, FALSE,
                              None, d.store # store, d.env)
                /\ UNCHANGED <<calls, dump, folder_backup_paths>>

NextPair ==
    \/ AddFileOp
    \/ DeletePairOp

SpecPair == InitPair /\ [][NextPair]_vars

(***************************************************************************)
(* A folder next to the backup folder whose name starts with its name      *)
(***************************************************************************)
\* //archive/S1_old/rec.npx2: the name of the folder continues the name of
\* the session folder, so the fragment after "/S1" has no separator and the
\* string of ArchiveS1 is a prefix of the string of the path
ArchiveOldRec == <<"//archive", "/S1", "_old", "/rec.npx2">>

\* db.add_file(db.DVFile(path, checksum, size)) of the file in that folder
AddSiblingOp ==
    \E cs \in Supplied :
        LET f == DVFile(ArchiveOldRec, cs[1], cs[2], fs)
            st == AddFile(f.val, store, fs)
        IN /\ f.err = ""
           /\ last.op \in SetupOps
           /\ Len(st) <= MaxStore
           /\ store' = st
           /\ last' = [NoOp EXCEPT !.op = "add", !.subject = f.val, !.file = f.val,
                                   !.added = st # store]
           /\ UNCHANGED <<fs, calls, dump, folder_backup_paths>>

\* find_valid_backups(db.DVFile(path, checksum, size), db, backup_paths)
FindValidBackupsOp ==
    \E p \in SubjectPaths : \E cs \in SubjectSupplied : \E paths \in BackupPathArgs :
        LET f == DVFile(p, cs[1], cs[2], fs)
            r == FindValidBackups(f.val, store, fs, paths, Listing)
        IN /\ f.err = ""
           /\ last.op \in SetupOps
           /\ Len(r.store) <= MaxStore
           /\ store' = r.store
           /\ last' = Op("find", f.val, paths, r.file, r.backups, NoBackup, 0, FALSE,
                         r.err, 0, FALSE, None, r.store # store, <<FALSE, FALSE>>)
           /\ UNCHANGED <<fs, calls, dump, folder_backup_paths>>

NextSibling ==
    \/ AddFileOp
    \/ AddSiblingOp
    \/ FindValidBackupsOp

SpecSibling == InitLookup /\ [][NextSibling]_vars

(***************************************************************************)
(* Lists of hits and their duplicates                                      *)
(***************************************************************************)
\* the most hits in a list
MaxHits == 4

\* the records the hits are drawn from: two copies of the same bytes and a
\* file of other bytes at the path of the first
HitRecords ==
    {File(ArchiveRec, "AAAAAAAA", 1000), File(ArchiveRenamed, "AAAAAAAA", 1000),
     File(ArchiveRec, "BBBBBBBB", 1000)}

InitHits ==
    /\ fs = [p \in FsPaths |-> NoFile]
    /\ store = <<>>
    /\ last \in {[op |-> "hits", hits |-> h, unique_hits |-> <<>>] :
                    h \in UNION {[1..n -> HitRecords] : n \in 0..MaxHits}}
    /\ calls = NoCalls
    /\ dump = NoDump
    /\ folder_backup_paths = {}

\* validate_backups: unique_hits of a list of hits
UniqueHitsOp ==
    /\ last.op = "hits"
    /\ last' = [last EXCEPT !.op = "unique_hits",
                            !.unique_hits = UniqueHits(last.hits, <<>>)]
    /\ UNCHANGED <<fs, store, calls, dump, folder_backup_paths>>

NextHits == UniqueHitsOp

SpecHits == InitHits /\ [][NextHits]_vars

(***************************************************************************)
(* generate_checksum with each function checksum_generator may be set to   *)
(***************************************************************************)
\* CRC32DataValidationFile.checksum_generator = gen;
\* generate_checksum(db.DVFile(path, size=size), db)
GenerateChecksumOp ==
    \E gen \in Generators : \E p \in FsPaths : \E size \in {NoSize, 1000, 2000} :
        LET f == DVFile(p, None, size, fs)
            g == GenerateChecksumBy(gen, f.val.path, f.val.size, fs)
            out == NewFile(g, f.val, store, fs)
        IN /\ f.err = ""
           /\ last.op \in SetupOps
           /\ store' = out.store
           /\ last' = [op |-> "generate", gen |-> gen, subject |-> f.val,
                       trace |-> g.trace, err |-> out.err, file |-> out.file,
                       before |-> store]
           /\ UNCHANGED <<fs, calls, dump, folder_backup_paths>>

NextGenerate ==
    \/ AddFileOp
    \/ GenerateChecksumOp

SpecGenerate == InitLookup /\ [][NextGenerate]_vars

(***************************************************************************)
(* The two readers on files of one chunk and of several                    *)
(***************************************************************************)
\* the sizes of the files and the fsize arguments (NoSize: omitted)
DigestSizes == {1000, 65536, 70000, 140000, 200000}
DigestFsizes == {NoSize, 0} \cup DigestSizes

InitDigest ==
    /\ fs = [p \in FsPaths |-> NoFile]
    /\ store = <<>>
    /\ last \in {[op |-> "file", content |-> [size |-> z, crc |-> c], fsize |-> f,
                  chunk |-> None, mmap |-> None] :
                    z \in DigestSizes, c \in {"AAAAAAAA", "BBBBBBBB"}, f \in DigestFsizes}
    /\ calls = NoCalls
    /\ dump = NoDump
    /\ folder_backup_paths = {}

\* chunk_crc32(file, fsize) and mmap_direct(file) on the same file
DigestOp ==
    /\ last.op = "file"
    /\ last' = [last EXCEPT !.op = "digest",
                            !.chunk = ChunkCrc32(last.content, last.fsize),
                            !.mmap = MmapDirect(last.content)]
    /\ UNCHANGED <<fs, store, calls, dump, folder_backup_paths>>

NextDigest == DigestOp

SpecDigest == InitDigest /\ [][NextDigest]_vars

(***************************************************************************)
(* The shelve backend                                                      *)
(***************************************************************************)
\* db.add_file(db.DVFile(path, checksum, size)), db the shelve backend
ShelveAddFileOp ==
    \E p \in LookupPaths : \E cs \in Supplied :
        LET f == DVFile(p, cs[1], cs[2], fs)
            st == ShelveAddFile(f.val, store, fs)
        IN /\ f.err = ""
           /\ last.op \in SetupOps
           /\ Len(st) <= MaxStore
           /\ store' = st
           /\ last' = [NoOp EXCEPT !.op = "add"]
           /\ UNCHANGED <<fs, calls, dump, folder_backup_paths>>

\* db.get_matches(db.DVFile(path, checksum, size)), db either backend
DbGetMatchesOp ==
    \E db \in {"mongo", "shelve"} :
    \E p \in LookupSubjects : \E cs \in SubjectSupplied :
        LET f == DVFile(p, cs[1], cs[2], fs)
            found == DbGetMatches(db, f.val, store, fs)
        IN /\ f.err = ""
           /\ last.op \in SetupOps
           /\ last' = [op |-> "get_matches", db |-> db, subject |-> f.val,
                       err |-> found.err, files |-> found.val]
           /\ UNCHANGED <<fs, store, calls, dump, folder_backup_paths>>

\* folder = DataValidationFolder(root); folder.db = db;
\* folder.add_folder_to_db()
DbAddFolderToDbOp ==
    \E db \in {"mongo", "shelve"} : \E root \in {AcqS1, ArchiveS1} :
        LET w == AfFolder([Walk(store, fs) EXCEPT !.db = db], root, Listing, {})
        IN /\ last.op \in SetupOps
           /\ fs' = w.fs
           /\ store' = w.store
           /\ last' = [op |-> "add_folder_to_db", db |-> db, root |-> root,
                       files |-> WalkFiles(root, Listing, fs), err |-> w.err,
                       before |-> store]
           /\ UNCHANGED <<calls, dump, folder_backup_paths>>

NextShelve ==
    \/ ShelveAddFileOp
    \/ DbGetMatchesOp
    \/ DbAddFolderToDbOp

SpecShelve == InitLookup /\ [][NextShelve]_vars

(***************************************************************************)
(* Two session folders and their backup locations                          *)
(***************************************************************************)
AcqS2 == <<"//acq", "/S2">>
ArchiveS2 == <<"//archive", "/S2">>
AcqS2Rec == <<"//acq", "/S2", "/rec.npx2">>

SessionFolders == {AcqS1, AcqS2}
FoldersListing == <<AcqRec, AcqS2Rec, ArchiveRec, ArchiveS2Rec>>

\* what each path may hold
FoldersContents(p) ==
    IF p \in {AcqRec, AcqS2Rec} THEN {ContentA}
    ELSE {NoFile, ContentA, ContentB}

\* the record of an operation on a folder: registered, the paths add_backup
\* was called with on each folder
FolderOp(op, folder, err, before, probed, unlinked, registered) ==
    [op |-> op, folder |-> folder, err |-> err, before |-> before,
     probed |-> probed, unlinked |-> unlinked, registered |-> registered]

InitFolders ==
    /\ fs \in {f \in [Range(FoldersListing) -> {NoFile, ContentA, ContentB}] :
                 \A p \in Range(FoldersListing) : f[p] \in FoldersContents(p)}
    /\ store = <<>>
    /\ last = FolderOp("init", <<>>, "", {}, {}, {}, [g \in SessionFolders |-> {}])
    /\ calls = NoCalls
    /\ dump = NoDump
    /\ folder_backup_paths = {}

\* folder = DataValidationFolder(root); folder.add_backup(path)
AddBackupOp ==
    \E folder \in SessionFolders : \E path \in {ArchiveS1, ArchiveS2, <<>>} :
        LET added == AddBackup(folder_backup_paths, path)
        IN /\ folder_backup_paths' = added.val
           /\ last' = FolderOp("add_backup", folder, added.err, folder_backup_paths,
                               {}, {},
                               IF added.err # "" THEN last.registered
                               ELSE [last.registered EXCEPT ![folder] = @ \cup {path}])
           /\ UNCHANGED <<fs, store, calls, dump>>

\* folder = DataValidationFolder(root); folder.validate_backups(delete=delete)
FolderValidateBackupsOp ==
    \E folder \in SessionFolders : \E delete \in BOOLEAN :
    \E backups \in Backups(folder, folder_backup_paths) :
        LET w == ValidateBackups(folder, backups, delete, store, fs, FoldersListing,
                                 {}, FALSE)
        IN /\ fs' = w.fs
           /\ store' = w.store
           /\ last' = FolderOp("validate_backups", folder, w.err, folder_backup_paths,
                               w.probed, w.unlinked, last.registered)
           /\ UNCHANGED <<calls, dump, folder_backup_paths>>

NextFolders ==
    \/ AddBackupOp
    \/ FolderValidateBackupsOp

SpecFolders == InitFolders /\ [][NextFolders]_vars

(***************************************************************************)
(* Session(path): __init__ and lims_path, frame by frame                   *)
(***************************************************************************)
\* the depth of __init__ frames at which the interpreter raises
\* RecursionError (sys.getrecursionlimit(), on the scale of the model)
RecursionLimit == 10

\* the paths a Session is built from; notes.txt lies in no session folder
SessionPaths == {AcqS1, AcqRec, ArchiveRec, ArchiveS2Rec, AcqS2Rec, AcqNotes}

\* what the lookup in lims gives: a storage directory, no row, or an
\* exception, which the bare except of lims_path turns into None
LimsOutcomes == {"storage_directory", "None", "exception"}

\* the state of a construction: pc is "enter" while frame `depth` of
\* __init__ is at self.__class__.lims_path(path), "return" when frame
\* `depth` waits in lims_path for the value of cls(path).id, "done" when the
\* outermost __init__ has returned or raised; lookups counts the calls of
\* dg.lims_data_getter; lims_path is the value the last lims_path returned
Construction(path, pc, depth, lookups, lims_path, err) ==
    [op |-> "Session", path |-> path, pc |-> pc, depth |-> depth,
     lookups |-> lookups, lims_path |-> lims_path, err |-> err]

InitSession ==
    /\ fs = [p \in FsPaths |-> NoFile]
    /\ store = <<>>
    /\ last = NoOp
    /\ calls = NoCalls
    /\ dump = NoDump
    /\ folder_backup_paths = {}

\* Session(path): __init__ up to self.__class__.lims_path(path); without a
\* session folder in the path lims_path returns None and __init__ raises
\* ValueError
SessionOp ==
    \E path \in SessionPaths :
        /\ last.op = "init"
        /\ last' = IF SessionFolder(path) = None
                   THEN Construction(path, "done", 0, 0, "None", "ValueError")
                   ELSE Construction(path, "enter", 1, 0, "None", "")
        /\ UNCHANGED <<fs, store, calls, dump, folder_backup_paths>>

\* lims_path of frame `depth`: folder is found, and inside the try
\* `cls(path)` calls __init__ again, which comes to lims_path again; at the
\* recursion limit the call raises RecursionError, the bare except of the
\* lims_path it was made in returns None, and that __init__ returns
LimsPathSessionOp ==
    /\ last.op = "Session"
    /\ last.pc = "enter"
    /\ last' = IF last.depth < RecursionLimit
               THEN [last EXCEPT !.depth = @ + 1]
               ELSE [last EXCEPT !.pc = IF last.depth = 1 THEN "done" ELSE "return",
                                 !.depth = @ - 1, !.lims_path = "None"]
    /\ UNCHANGED <<fs, store, calls, dump, folder_backup_paths>>

\* lims_path of frame `depth` after cls(path) has returned:
\* dg.lims_data_getter(id) and the query; the value is returned and the
\* __init__ of the frame returns to the lims_path that called it
LimsLookupOp ==
    \E outcome \in LimsOutcomes :
        /\ last.op = "Session"
        /\ last.pc = "return"
        /\ last' = [last EXCEPT !.pc = IF last.depth = 1 THEN "done" ELSE "return",
                                !.depth = @ - 1,
                                !.lookups = @ + 1,
                                !.lims_path = IF outcome = "exception" THEN "None"
                                              ELSE outcome]
        /\ UNCHANGED <<fs, store, calls, dump, folder_backup_paths>>

NextSession ==
    \/ SessionOp
    \/ LimsPathSessionOp
    \/ LimsLookupOp

SpecSession == InitSession /\ [][NextSession]_vars

(***************************************************************************)
(* Properties                                                              *)
(***************************************************************************)
\* the records get_matches builds from the entries of the session of a file
StoredFor(file) == Range(SessionFiles(SessionId(file.path), store, fs))

\* the backup paths a delete record was run with
RootsOf(op) == IF op.paths = <<>> THEN DefaultBackupPaths(op.subject) ELSE op.paths

C5_SelfWithChecksum ==
    (last.op = "eq" /\ last.subject = last.file /\ HasChecksum(last.subject))
        => last.ret = SELF

C5_Witness ==
    /\ last.op = "eq"
    /\ last.subject = last.file
    /\ HasChecksum(last.subject)
    /\ last.subject.size = NoSize
    /\ last.ret = SELF

\* C5 as stated: for every record a, with or without a checksum, a == a is
\* SELF.
C5_SelfAnyRecord ==
    (last.op = "eq" /\ last.subject = last.file) => last.ret = SELF

\* C6: for every pair of records a, b that both have a checksum, whatever
\* their paths, names, sizes and checksums, a == b and b == a are the same
\* Match value.
C6_SymmetricWithChecksums ==
    (last.op = "eq" /\ HasChecksum(last.subject) /\ HasChecksum(last.file))
        => last.ret = Eq(last.file, last.subject)

C6_Witness ==
    /\ last.op = "eq"
    /\ HasChecksum(last.subject)
    /\ HasChecksum(last.file)
    /\ last.subject.size # last.file.size
    /\ last.ret = CHECKSUM_COLLISION
    /\ Eq(last.file, last.subject) = CHECKSUM_COLLISION

\* the rows of the priority ladder of two records, each a condition and the
\* Match value of the row
LadderRows(a, b) ==
    LET both == HasChecksum(a) /\ HasChecksum(b)
        sum == a.checksum = b.checksum
        size == a.size = b.size
        path == Lower(a.path) = Lower(b.path)
        name == LowerFrag(Name(a.path)) = LowerFrag(Name(b.path))
    IN << <<both /\ sum /\ size /\ path, SELF>>,
          <<size /\ path /\ ~HasChecksum(a) /\ HasChecksum(b), SELF_NO_CHECKSUM>>,
          <<size /\ path /\ HasChecksum(a) /\ ~HasChecksum(b), OTHER_NO_CHECKSUM>>,
          <<both /\ sum /\ size /\ name /\ ~path, VALID_COPY_SAME_NAME>>,
          <<both /\ sum /\ size /\ ~name /\ ~path, VALID_COPY_RENAMED>>,
          <<both /\ name /\ ~path /\ ~size /\ ~sum, UNSYNCED_DATA>>,
          <<both /\ name /\ ~path /\ ~size /\ sum, UNSYNCED_CHECKSUM>>,
          <<both /\ name /\ ~path /\ size /\ ~sum, UNSYNCED_OR_CORRUPT_DATA>>,
          <<both /\ sum /\ ~size /\ ~name, CHECKSUM_COLLISION>>,
          <<both /\ ~sum /\ ~size /\ ~name, UNRELATED>> >>

\* the Match value of the first row whose condition holds, UNKNOWN when none
FirstRow(a, b) ==
    LET rows == LadderRows(a, b)
        holding == {i \in DOMAIN rows : rows[i][1]}
    IN IF holding = {} THEN UNKNOWN
       ELSE rows[CHOOSE i \in holding : \A j \in holding : i <= j][2]

\* C7: for every pair of records, a == b is the Match value of the first
\* row of the priority ladder whose condition holds and UNKNOWN when none
\* holds; it is always a member of Match, never the None of a function that
\* falls off its end.
C7_FirstRowOfLadder ==
    last.op = "eq" =>
        /\ last.ret = FirstRow(last.subject, last.file)
        /\ last.ret \in MatchValues
        /\ last.ret # NoResult

C7_Witness ==
    /\ last.op = "eq"
    /\ HasChecksum(last.subject)
    /\ HasChecksum(last.file)
    /\ last.subject.path = AcqRecUpper
    /\ last.file.path = AcqRec
    /\ last.subject.checksum # last.file.checksum
    /\ last.ret = UNKNOWN

\* C8 (amended): for every record r that has a checksum and every prior
\* content of the collection, after add_file(r) the result of get_matches(r)
\* holds a stored entry e with r == e SELF.
C8_AddedRecordMatchesSelf ==
    (last.op = "add" /\ HasChecksum(last.file)) =>
        \E e \in Range(GetMatches(last.file, 0, store, fs)) :
            Eq(last.file, e) = SELF

C8_Witness ==
    /\ last.op = "add"
    /\ HasChecksum(last.file)
    /\ last.added
    /\ Len(store) = 2
    /\ \E e \in Range(GetMatches(last.file, 0, store, fs)) : Eq(last.file, e) = SELF

\* C8 as stated: for every record r, with or without a checksum, after
\* add_file(r) the result of get_matches(r) holds an entry e with r == e
\* SELF.
C8_AnyAddedRecordMatchesSelf ==
    last.op = "add" =>
        \E e \in Range(GetMatches(last.file, 0, store, fs)) :
            Eq(last.file, e) = SELF

\* C9 as stated: add_file is an idempotent upsert: adding the record just
\* added once more leaves the collection as it is, and after any sequence of
\* adds the collection holds no two entries with the same path, size and
\* checksum.
C9_AddIsIdempotent ==
    /\ last.op = "add" => AddFile(last.file, store, fs) = store
    /\ \A i, j \in DOMAIN store : store[i] = store[j] => i = j

\* the number of entries of the collection equal to the entry of a file
EntriesOf(file) == Cardinality({i \in DOMAIN store : store[i] = Entry(file)})

RenamedChildren(root, subject, checksum, size, fsys) ==
    {c \in FsPaths :
        /\ ~Exists(fsys, Join(root, RelativePath(subject)))
        /\ DirOf(c) = Normalize(root)
        /\ fsys[c] # NoFile
        /\ LowerFrag(Name(c)) # LowerFrag(Name(subject.path))
        /\ fsys[c].size = size
        /\ fsys[c].crc = checksum}

\* the collection holds a valid copy of a record under one of the backup
\* paths of a delete record
StoredValidCopy(op, file) ==
    \E m \in StoredFor(file) :
        /\ Eq(file, m) \in {VALID_COPY_SAME_NAME, VALID_COPY_RENAMED}
        /\ \E i \in DOMAIN RootsOf(op) : StartsWith(m.path, RootsOf(op)[i])

KindsOf(match) ==
    IF match.type = "none" THEN DefaultKinds
    ELSE IF match.type = "int" THEN {match.int}
    ELSE match.list

\* C12: get_matches(record, kindFilter), kindFilter a kind or a list of kinds,
\* returns exactly the records of the collection of the record's session
\* whose match with the record is in kindFilter, and with no filter exactly
\* those whose match is neither UNRELATED nor UNKNOWN.
C12_ReturnsKindsAskedFor ==
    (last.op = "get_matches" /\ (last.match.type = "int" => last.match.int \in MatchValues))
        => last.files = GetMatchesList(last.subject, KindsOf(last.match), store, fs)

\* C13 for the document collection: every record get_matches returns is
\* built from an entry of the session of the record looked up.
C13_MongoLookupInSession ==
    last.op = "get_matches" =>
        \A i \in DOMAIN last.files :
            SessionId(last.files[i].path) = SessionId(last.subject.path)

\* C13: for every backend, get_matches(record) returns no entry whose
\* session differs from the record's; here the json database.
C13_JsonLookupInSession ==
    last.op = "json_get_matches" =>
        \A i \in DOMAIN last.found.indexes :
            SessionId(store[last.found.indexes[i] + 1].path) = SessionId(last.subject.path)

\* C14: when two processes add the same record, with its checksum, at the
\* same time, the check and the insert of one are not interleaved with those
\* of the other: once both calls have returned the collection holds exactly
\* one entry of the record.
C14_OneEntryOfRecord ==
    (/\ \A w \in Workers : calls[w].pc = "done"
     /\ calls[1].file = calls[2].file
     /\ HasChecksum(calls[1].file))
        => EntriesOf(calls[1].file) = 1

C16_WalkReachesEveryFile ==
    last.op \in {"validate_backups", "add_folder_to_db"}
        => (last.err = "" /\ last.done = last.files)

\* C17: a json database that is saved and loaded again holds the entries
\* (path, checksum, size) it held before: none is lost and none is new.
C17_SaveLoadRoundTrip ==
    (last.op = "json_load" /\ last.saved) => Range(store) = Range(last.db)

\* the collection holds, for the path and size, entries that disagree on
\* the checksum
Ambiguous(st, path, size) ==
    \E i, j \in DOMAIN st :
        /\ st[i].path = path /\ st[j].path = path
        /\ st[i].size = size /\ st[j].size = size
        /\ HasChecksum(st[i]) /\ HasChecksum(st[j])
        /\ st[i].checksum # st[j].checksum

\* C18: validate_backups(delete=True) deletes no file for whose path and
\* size the collection held entries that disagree on the checksum, whatever
\* the size of the file.
C18_AmbiguousNotDeleted ==
    (last.op = "validate_backups" /\ last.delete)
        => \A p \in Range(last.files) :
              Ambiguous(last.before, p, last.fsbefore[p].size) => p \notin last.unlinked

\* C19: no walk assigns a checksum to a file object after its construction,
\* and no entry of the collection holds a checksum without a size.
C19_NoChecksumAssigned ==
    last.op \in {"validate_backups", "add_folder_to_db"}
        => /\ last.assigned = {}
           /\ \A i \in DOMAIN store : HasChecksum(store[i]) => store[i].size # NoSize

\* eight characters, each an uppercase hex digit
UpperHex8(value) ==
    /\ Len(value) = 8
    /\ \A i \in DOMAIN value :
          value[i] \in {"0", "1", "2", "3", "4", "5", "6", "7", "8", "9",
                        "A", "B", "C", "D", "E", "F"}

\* C20: a record constructed with, or assigned, a checksum string holds it
\* only when the string is eight uppercase hex digits; any other string,
\* lowercase hex included, raises ValueError and reaches no record and no
\* store.
C20_UppercaseHexOnly ==
    last.op \in {"construct", "assign"}
        => /\ last.err = "" => UpperHex8(last.file.checksum)
           /\ ~UpperHex8(last.value) => (last.err = "ValueError" /\ store = <<>>)

InSubtree(path, root) ==
    /\ IsPrefix(root, path)
    /\ Len(path) > Len(root)
    /\ path[Len(root) + 1] # "_old"

C23_UniqueHitsAreTheDistinctHits ==
    last.op = "unique_hits"
        => /\ \A i, j \in DOMAIN last.unique_hits :
                 last.unique_hits[i] = last.unique_hits[j] => i = j
           /\ Range(last.unique_hits) = Range(last.hits)

C25_SelfTestFirst ==
    last.op = "generate"
        => /\ last.trace # <<>> /\ last.trace[1] = "checksum_test"
           /\ \A i \in DOMAIN last.trace :
                 last.trace[i] = "checksum_generator"
                    => (i = 2 /\ test_crc32_function(last.gen))
           /\ ~test_crc32_function(last.gen)
                 => /\ last.err = "AssertionError"
                    /\ ~HasChecksum(last.file)
                    /\ store = last.before

\* a generator that fails the test was set when a file on disk was to be
\* checksummed
C25_Witness ==
    /\ last.op = "generate"
    /\ ~test_crc32_function(last.gen)
    /\ Exists(fs, last.subject.path)
    /\ last.err = "AssertionError"

\* C26: chunk_crc32(file, fsize) and mmap_direct(file) return the same
\* digest, whatever the file holds and whatever fsize is passed.
C26_ReadersAgree == last.op = "digest" => last.chunk = last.mmap

\* C27: a second add_folder_to_db over an unchanged folder, whatever the
\* three settings, adds no entry: the collection after two walks is the
\* collection after one
C27_SecondWalkAddsNothing ==
    (last.op = "walk" /\ last.walks = 2) => store = last.before

\* the second walk has ended without an exception over a folder whose
\* checksums it regenerated, after a first walk that added entries
C27_Witness ==
    /\ last.op = "walk"
    /\ last.walks = 2
    /\ last.err = ""
    /\ last.regenerate_large_checksums
    /\ last.upper_size_limit >= 1000
    /\ \E i \in DOMAIN store : store[i].path = Normalize(AcqRec)
                                /\ store[i].checksum # None

\* C28: backup locations are per folder: add_backup on one folder leaves the
\* backups() of every other folder as they were, and validate_backups of a
\* folder probes no backup folder but those add_backup was called with on
\* that folder, and deletes nothing when add_backup was never called on it
C28_BackupsArePerFolder ==
    /\ (last.op = "add_backup" /\ last.err = "") =>
           \A g \in SessionFolders \ {last.folder} :
               Backups(g, folder_backup_paths) = Backups(g, last.before)
    /\ last.op = "validate_backups" =>
           /\ last.probed \subseteq last.registered[last.folder]
           /\ last.registered[last.folder] = {} => last.unlinked = {}

\* the collection holds an entry of the session of the path
SessionSeen(st, path) == \E i \in DOMAIN st : st[i].session_id = SessionId(path)

\* C29: get_matches of a file whose session has no entry returns an empty
\* result without raising, with either backend, and a walk of
\* add_folder_to_db over a folder of a session never seen ends normally
C29_UnseenSessionIsEmpty ==
    /\ (last.op = "get_matches" /\ ~SessionSeen(store, last.subject.path)) =>
           (last.err = "" /\ last.files = <<>>)
    /\ (last.op = "add_folder_to_db" /\ ~SessionSeen(last.before, last.root)) =>
           last.err = ""

\* C30: the construction of a Session from a path with a session key makes
\* at most one lookup in lims, and lims_path does not call the constructor
\* again and again: the nesting of __init__ stays below the depth at which
\* the interpreter ends it
C30_OneLookupNoReentry ==
    last.op = "Session" => (last.lookups <= 1 /\ last.depth < RecursionLimit)

=============================================================================
